---- MODULE Spec2Model ----
(***************************************************************************)
(* Skill orchestration engine of pwi/skills: SkillResult (result.py),      *)
(* SkillExecutor (executor.py): single execution, confidence routing,      *)
(* parallel execution and the pipeline runner, and SkillRegistry           *)
(* (registry.py): the scan of the skills directory.                        *)
(*                                                                         *)
(* Confidences are hundredths (0.8 is 80); NaN is a value of its own that  *)
(* every comparison rejects, as IEEE floats do.  duration_ms and the       *)
(* timestamps are wall-clock readings and are left out of the results.     *)
(* Python values are tagged records so that values of different Python     *)
(* types can be compared.                                                  *)
(***************************************************************************)
EXTENDS Integers, Sequences, FiniteSets, TLC

VARIABLES
    registry,         \* SkillRegistry._skills: the descriptor of each name
    skills_dir,       \* the skills directory as the last scan found it
    strict,           \* SkillRegistry.strict
    validation_warnings,  \* SkillRegistry._validation_warnings
    scan_ret,         \* what the last scan returned or raised
    scan_start,       \* history: whether the last scan began on a used registry
    query_call,       \* the last call of the registry's query API
    query_ret,        \* what that call returned or raised
    handlers,         \* SkillExecutor._handlers: names with a registered handler
    notify_callback,  \* SkillExecutor._notify_callback: "none", "ok", "raises"
    log_ok,           \* whether the log directory can be written (else OSError)
    caller_context,   \* the context object the caller passed in
    heap,             \* the prior_results mappings, by object identity
    pc,               \* position of the top-level call
    call,             \* the top-level call and its arguments
    tasks,            \* execute calls of the current call / pipeline step
    running_context,  \* execute_pipeline: running_context
    step_index,       \* execute_pipeline: index of the current step (1-based)
    step_results,     \* execute_pipeline: step_results
    all_results,      \* execute_pipeline: all_results
    failed,           \* execute_pipeline: failed
    exec_log,         \* lines of skill_executions.jsonl
    pipeline_log,     \* lines of pipeline_runs.jsonl
    notified,         \* invocations of the notification callback
    ret,              \* what the top-level call returned
    step_start,       \* history: running_context as the current step began
    nodes,            \* GraphStore: the rows of table nodes
    edges,            \* GraphStore: the rows of table edges
    now,              \* the clock GraphStore._now reads
    store_call,       \* the last call on the graph store
    store_before,     \* history: the two tables as that call began
    store_ret         \* what that call returned

vars == <<registry, skills_dir, strict, validation_warnings, scan_ret,
          scan_start, query_call, query_ret,
          handlers, notify_callback, log_ok, caller_context, heap,
          pc, call, tasks, running_context, step_index, step_results,
          all_results, failed, exec_log, pipeline_log, notified, ret,
          step_start, nodes, edges, now, store_call, store_before,
          store_ret>>

----------------------------------------------------------------------------
(* Bounds and program constants *)

MaxSkills == 3

THRESHOLD_AUTO == 80

THRESHOLD_NOTIFY == 50

AUTO_EXECUTE_THRESHOLD == 80

NOTIFY_THRESHOLD == 50

max_keys == 10

----------------------------------------------------------------------------
(* Python values *)

None == [none |-> TRUE]

NaN == [nan |-> TRUE]

Missing == [missing |-> TRUE]

Text(s) == [s |-> s]

Num(i) == [i |-> i]

Flag(b) == [b |-> b]

KeyNames == <<"k1", "k2", "k3", "k4", "k5", "k6", "k7", "k8", "k9", "k10",
              "k11", "k12">>

\* A dict is its items in insertion order.
Dict(items) == [dict |-> items]

List(n) == [list |-> n]

\* A list whose items matter: their number and the items.
Listing(items) == [list |-> Len(items), elems |-> items]

DictOfSize(n) == Dict([i \in 1..n |-> [k |-> KeyNames[i], v |-> Text("v")]])

IsDict(d) == "dict" \in DOMAIN d

IsList(d) == "list" \in DOMAIN d

IsNum(c) == "i" \in DOMAIN c

\* Float comparisons: false whenever an operand is NaN.
Lt(c, t) == IsNum(c) /\ c.i < t

Ge(c, t) == IsNum(c) /\ c.i >= t

----------------------------------------------------------------------------
(* result.py: SkillResult *)

SkillResult(skill_name, success, confidence, data, errors) ==
    [skill_name |-> skill_name, success |-> success, confidence |-> confidence,
     data |-> data, errors |-> errors,
     requires_user_input |-> FALSE, user_prompt |-> None]

is_auto_executable(r) == Ge(r.confidence, AUTO_EXECUTE_THRESHOLD)

needs_notification(r) ==
    Ge(r.confidence, NOTIFY_THRESHOLD) /\ Lt(r.confidence, AUTO_EXECUTE_THRESHOLD)

needs_human_review(r) ==
    Lt(r.confidence, NOTIFY_THRESHOLD) \/ r.requires_user_input

\* to_dict copies the fields; data, errors and user_prompt stay the same objects.
to_dict(r) == r

ErrorOptions ==
    <<[id |-> 1, label |-> "Retry"],
      [id |-> 2, label |-> "Skip this skill"],
      [id |-> 3, label |-> "Abort pipeline"]>>

error_result(skill_name, error_msg) ==
    [SkillResult(skill_name, FALSE, Num(0), Dict(<<>>), <<error_msg>>)
        EXCEPT !.requires_user_input = TRUE,
               !.user_prompt =
                   [ambiguity_detected |-> TRUE,
                    question |-> "Skill '" \o skill_name \o "' failed: "
                                 \o error_msg \o ". How should we proceed?",
                    options |-> ErrorOptions]]

----------------------------------------------------------------------------
(* registry.py: SkillDescriptor *)

\* A descriptor: its name (the value the definition file gives, a text or a
\* number), the definition file it was made from, its confidence_threshold
\* and its tags (the value the definition file gives, [] by default).
SkillDescriptor(name, path, confidence_threshold, tags) ==
    [name |-> name, path |-> path, confidence_threshold |-> confidence_threshold,
     tags |-> tags]

\* The registry of the executor's specifications: "a" and "b" are registered,
\* with the given confidence_threshold.
Registered(threshold) ==
    [n \in {"a", "b"} |-> SkillDescriptor(Text(n), n, threshold, Listing(<<>>))]

\* The confidence_threshold values of descriptors: the default, and one above
\* both routing thresholds.
----------------------------------------------------------------------------
(* registry.py: definition files, frontmatter and validation.  A path is   *)
(* the name of the subdirectory holding the SKILL.md; thresholds are       *)
(* hundredths, as confidences are.                                         *)

\* What a definition file says after "key:": a scalar text, or indented list
\* items.
Scalar(s) == [scalar |-> s]

Items(items) == [items |-> items]

\* _coerce on the scalars of the definition files: a number when the text
\* parses as one, otherwise the text.
coerce(value) ==
    CASE value = "0.9" -> Num(90)
      [] value = "1.5" -> Num(150)
      [] value = "42" -> Num(42)
      [] OTHER -> Text(value)

\* The empty dict.
EmptyMeta == [key \in {} |-> None]

\* _parse_yaml_frontmatter: {} when the text has no "---" block, otherwise the
\* block's key lines with coerced scalars and collected lists; a key written
\* twice keeps its last value.
parse_yaml_frontmatter(text) ==
    IF ~text.has_block THEN EmptyMeta
    ELSE LET lines == text.lines
             Last(key) == CHOOSE i \in DOMAIN lines :
                              /\ lines[i].key = key
                              /\ \A j \in DOMAIN lines : lines[j].key = key => j <= i
         IN  [key \in {lines[i].key : i \in DOMAIN lines} |->
                 LET value == lines[Last(key)].value IN
                 IF "scalar" \in DOMAIN value THEN coerce(value.scalar)
                 ELSE Listing([i \in DOMAIN value.items |->
                                  coerce(value.items[i])])]

\* float(): of a number, the number; of any other value of the definition
\* files, ValueError or TypeError.
float(value) ==
    IF IsNum(value) THEN [value |-> value, exc |-> None]
    ELSE IF IsList(value)
    THEN [value |-> None,
          exc |-> [type |-> "TypeError",
                   msg |-> "float() argument must be a string or a real number"]]
    ELSE [value |-> None,
          exc |-> [type |-> "ValueError",
                   msg |-> "could not convert string to float: '" \o value.s \o "'"]]

\* str() of the floats of the definition files.
FloatText(value) ==
    CASE value = Num(90) -> "0.9"
      [] value = Num(150) -> "1.5"
      [] OTHER -> "0.5"

REQUIRED_FIELDS == <<"name", "description", "version">>

\* dict.get
MetaGet(meta, key, default) == IF key \in DOMAIN meta THEN meta[key] ELSE default

\* Lines 174-185: the warnings about confidence_threshold.
ThresholdWarnings(meta, path) ==
    LET threshold == MetaGet(meta, "confidence_threshold", None) IN
    IF threshold = None THEN <<>>
    ELSE LET val == float(threshold) IN
         IF val.exc # None
         THEN <<path \o ": confidence_threshold is not a number">>
         ELSE IF ~(0 <= val.value.i /\ val.value.i <= 100)
         THEN <<path \o ": confidence_threshold " \o FloatText(val.value)
                     \o " outside [0, 1]">>
         ELSE <<>>

\* _validate_meta: the warnings of one metadata block, in the code's order.
validate_meta(meta, path) ==
    LET missing == SelectSeq(REQUIRED_FIELDS, LAMBDA f : f \notin DOMAIN meta)
        required == [i \in 1..Len(missing) |->
                        path \o ": missing required field '" \o missing[i] \o "'"]
        tags == IF "tags" \in DOMAIN meta /\ ~IsList(meta["tags"])
                THEN <<path \o ": 'tags' should be a list">> ELSE <<>>
        trigger == IF "trigger" \in DOMAIN meta /\ ~IsList(meta["trigger"])
                   THEN <<path \o ": 'trigger' should be a list">> ELSE <<>>
    IN  required \o tags \o trigger \o ThresholdWarnings(meta, path)

\* "; ".join(warnings)
RECURSIVE Join(_)
Join(warnings) ==
    IF Len(warnings) = 0 THEN ""
    ELSE IF Len(warnings) = 1 THEN warnings[1]
    ELSE warnings[1] \o "; " \o Join(Tail(warnings))

\* Faulty variant: strict mode is not consulted.
StrictViolation_Ignored(warnings, strict_) == FALSE

\* Line 392: validation warnings are fatal in strict mode.
StrictViolation(warnings, strict_) == warnings # <<>> /\ strict_

\* The key of _skills for a name: the text itself, and for the number 42 the
\* key "42" (no definition file names a skill with the text "42").
Key(name) == IF IsNum(name) THEN "42" ELSE name.s

\* Faulty variant: a name that is already registered keeps its descriptor.
Store_KeepFirst(skills, descriptor) ==
    IF Key(descriptor.name) \in DOMAIN skills THEN skills
    ELSE [n \in DOMAIN skills \cup {Key(descriptor.name)} |->
             IF n = Key(descriptor.name) THEN descriptor ELSE skills[n]]

\* Lines 408-410: self._skills[name] = descriptor, overwriting a duplicate.
Store(skills, descriptor) ==
    [n \in DOMAIN skills \cup {Key(descriptor.name)} |->
        IF n = Key(descriptor.name) THEN descriptor ELSE skills[n]]

\* What _register_from_file leaves behind: _skills, _validation_warnings and
\* the exception it raised (None when it returned).
Registration(skills, warnings, exc) ==
    [skills |-> skills, warnings |-> warnings, exc |-> exc]

\* Faulty variant: a file without a metadata block is registered under its
\* directory's name.
NoFrontmatter_Registered(skills, warnings, path) ==
    Registration(Store(skills, SkillDescriptor(Text(path), path, Num(50),
                                               Listing(<<>>))),
                 Append(warnings, path \o ": no YAML frontmatter found"), None)

\* Lines 383-387: no metadata, one warning, nothing registered.
NoFrontmatter(skills, warnings, path) ==
    Registration(skills, Append(warnings, path \o ": no YAML frontmatter found"),
                 None)

\* Faulty variant: in strict mode the error is raised before the file's
\* warnings are recorded.
register_from_file_RaiseFirst(skills, warnings, path, file, strict_) ==
    IF ~file.readable
    THEN Registration(skills, warnings,
                      [type |-> "UnicodeDecodeError",
                       msg |-> "'utf-8' codec can't decode byte"])
    ELSE
    LET meta == parse_yaml_frontmatter(file.text) IN
    IF DOMAIN meta = {} THEN NoFrontmatter(skills, warnings, path)
    ELSE
    LET found == validate_meta(meta, path)
        extended == warnings \o found
    IN
    IF StrictViolation(found, strict_)
    THEN Registration(skills, warnings,
                      [type |-> "SkillValidationError", msg |-> Join(found)])
    ELSE
    LET name == MetaGet(meta, "name", Text(path))
        threshold == float(MetaGet(meta, "confidence_threshold", Num(50)))
    IN
    IF threshold.exc # None
    THEN Registration(skills, extended, threshold.exc)
    ELSE Registration(Store(skills,
                            SkillDescriptor(name, path, threshold.value,
                                            MetaGet(meta, "tags", Listing(<<>>)))),
                      extended, None)

\* _register_from_file on the definition file of the subdirectory path.
register_from_file(skills, warnings, path, file, strict_) ==
    IF ~file.readable
    THEN Registration(skills, warnings,
                      [type |-> "UnicodeDecodeError",
                       msg |-> "'utf-8' codec can't decode byte"])
    ELSE
    LET meta == parse_yaml_frontmatter(file.text) IN
    IF DOMAIN meta = {} THEN NoFrontmatter(skills, warnings, path)
    ELSE
    LET found == validate_meta(meta, path)
        extended == warnings \o found
    IN
    IF StrictViolation(found, strict_)
    THEN Registration(skills, extended,
                      [type |-> "SkillValidationError", msg |-> Join(found)])
    ELSE
    LET name == MetaGet(meta, "name", Text(path))
        threshold == float(MetaGet(meta, "confidence_threshold", Num(50)))
    IN
    IF threshold.exc # None
    THEN Registration(skills, extended, threshold.exc)
    ELSE Registration(Store(skills,
                            SkillDescriptor(name, path, threshold.value,
                                            MetaGet(meta, "tags", Listing(<<>>)))),
                      extended, None)

\* Faulty variant: a failure to read or parse a file leaves scan.
ParseFailure_Fatal(warnings, path, exc) ==
    [warnings |-> warnings, raise |-> TRUE]

\* Lines 280-283: any other exception becomes a warning.
ParseFailure(warnings, path, exc) ==
    [warnings |-> Append(warnings, "Failed to parse " \o path \o ": " \o exc.msg),
     raise |-> FALSE]

\* What scan leaves behind: _skills, _validation_warnings and the exception
\* that left it (None when it returned).
Scanned(skills, warnings, exc) ==
    [skills |-> skills, warnings |-> warnings, exc |-> exc]

\* Lines 265-283: the loop of scan over the sorted subdirectories, from the
\* i-th on.
RECURSIVE ScanFrom(_, _, _, _, _)
ScanFrom(skills, warnings, dir, i, strict_) ==
    IF i > Len(dir) THEN Scanned(skills, warnings, None)
    ELSE IF ~dir[i].is_file THEN ScanFrom(skills, warnings, dir, i + 1, strict_)
    ELSE
    LET r == register_from_file(skills, warnings, dir[i].path, dir[i].file, strict_)
    IN
    IF r.exc = None THEN ScanFrom(r.skills, r.warnings, dir, i + 1, strict_)
    ELSE IF r.exc.type = "SkillValidationError"
    THEN IF strict_ THEN Scanned(r.skills, r.warnings, r.exc)
         ELSE ScanFrom(r.skills, Append(r.warnings, r.exc.msg), dir, i + 1, strict_)
    ELSE LET f == ParseFailure(r.warnings, dir[i].path, r.exc) IN
         IF f.raise THEN Scanned(r.skills, f.warnings, r.exc)
         ELSE ScanFrom(r.skills, f.warnings, dir, i + 1, strict_)

\* The keys in the order sorted() gives the names.
NameOrder == <<"42", "a", "b", "d1", "d2", "d3", "d4", "fetch-jira",
               "stale-detection", "x", "y">>

\* The skills property: the descriptors sorted by name; sorted() raises
\* TypeError when it has to compare a number with a text.
skills_sorted(skills) ==
    LET names == SelectSeq(NameOrder, LAMBDA n : n \in DOMAIN skills) IN
    IF \E m, n \in DOMAIN skills : IsNum(skills[m].name) /\ ~IsNum(skills[n].name)
    THEN [value |-> None,
          exc |-> [type |-> "TypeError",
                   msg |-> "'<' not supported between instances of 'str' and 'int'"]]
    ELSE [value |-> [i \in 1..Len(names) |-> skills[names[i]]], exc |-> None]

----------------------------------------------------------------------------
(* registry.py: the query API *)

\* The elements of a sequence.
Elems(seq) == {seq[i] : i \in DOMAIN seq}

\* matches_tag, "tag in self.tags": membership in a list, containment in a
\* text (no tag of the queries is a proper part of another, so containment is
\* equality), and TypeError on a number.
matches_tag(descriptor, tag) ==
    IF IsList(descriptor.tags)
    THEN [value |-> Text(tag) \in Elems(descriptor.tags.elems), exc |-> None]
    ELSE IF IsNum(descriptor.tags)
    THEN [value |-> FALSE,
          exc |-> [type |-> "TypeError",
                   msg |-> "argument of type 'int' is not iterable"]]
    ELSE [value |-> descriptor.tags = Text(tag), exc |-> None]

\* Faulty variant: all() and any() are exchanged.
Selects_Swapped(descriptor, tags, match_all) ==
    IF match_all THEN \E i \in DOMAIN tags : matches_tag(descriptor, tags[i]).value
    ELSE \A i \in DOMAIN tags : matches_tag(descriptor, tags[i]).value

\* Lines 299-307: all() or any() of the matches.
Selects(descriptor, tags, match_all) ==
    IF match_all THEN \A i \in DOMAIN tags : matches_tag(descriptor, tags[i]).value
    ELSE \E i \in DOMAIN tags : matches_tag(descriptor, tags[i]).value

\* What filter_by_tags returns: the sorted descriptors that the tags select; the exception
\* of the skills property or of the first matches_tag call that raises.
FilterByTags(skills, tags, match_all) ==
    LET sorted == skills_sorted(skills) IN
    IF sorted.exc # None THEN sorted
    ELSE LET raising == {i \in DOMAIN sorted.value :
                            tags # <<>> /\ matches_tag(sorted.value[i], tags[1]).exc # None}
         IN  IF raising # {}
             THEN [value |-> None,
                   exc |-> matches_tag(sorted.value[CHOOSE i \in raising : TRUE],
                                       tags[1]).exc]
             ELSE [value |-> SelectSeq(sorted.value,
                                       LAMBDA d : Selects(d, tags, match_all)),
                   exc |-> None]

\* Lines 318-324: the groups in the order of the result.
GroupNames == <<"fetch", "core_analysis", "sentiment", "mining", "enrichment">>

tag_to_group ==
    [t \in {"fetch", "analysis", "sentiment", "nlp", "mining", "enrichment"} |->
        CASE t = "fetch" -> "fetch"
          [] t = "analysis" -> "core_analysis"
          [] t \in {"sentiment", "nlp"} -> "sentiment"
          [] t = "mining" -> "mining"
          [] OTHER -> "enrichment"]

name_to_group ==
    [n \in {"fetch-google-chat", "fetch-calendar", "fetch-jira", "fetch-asana",
            "fetch-sheets", "fetch-slack", "fetch-email", "stale-detection",
            "misalignment-check", "reply-suggestion", "sentiment-analysis",
            "morale-forecasting", "blocker-identification",
            "action-item-extraction", "trend-detection", "inference-engine",
            "knowledge-gap-filler", "semantic-enrichment"} |->
        CASE n \in {"fetch-google-chat", "fetch-calendar", "fetch-jira",
                    "fetch-asana", "fetch-sheets", "fetch-slack", "fetch-email"}
                 -> "fetch"
          [] n \in {"stale-detection", "misalignment-check", "reply-suggestion"}
                 -> "core_analysis"
          [] n \in {"sentiment-analysis", "morale-forecasting"} -> "sentiment"
          [] n \in {"blocker-identification", "action-item-extraction",
                    "trend-detection"} -> "mining"
          [] OTHER -> "enrichment"]

\* Lines 361-362 and 369-370: the name joins the group unless it is there.
AddToGroup(groups, group, name) ==
    IF name \in Elems(groups[group]) THEN groups
    ELSE [groups EXCEPT ![group] = Append(@, name)]

\* Faulty variant: the tags are consulted before the name table.
GroupOfSkill_TagsFirst(descriptor) ==
    LET tags == IF IsList(descriptor.tags) THEN descriptor.tags.elems ELSE <<>>
        mapping == {i \in DOMAIN tags :
                       ~IsNum(tags[i]) /\ tags[i].s \in DOMAIN tag_to_group}
    IN  IF mapping # {}
        THEN tag_to_group[tags[CHOOSE i \in mapping :
                                   \A j \in mapping : i <= j].s]
        ELSE IF ~IsNum(descriptor.name) /\ descriptor.name.s \in DOMAIN name_to_group
        THEN name_to_group[descriptor.name.s]
        ELSE "none"

\* Lines 357-371: the group one skill is assigned to ("none" when neither its
\* name nor any of its tags maps to one): the name table first, then the
\* first tag of the tag table.  The characters of a text that stands where
\* the tag list should be are no tags of the table.
GroupOfSkill(descriptor) ==
    IF ~IsNum(descriptor.name) /\ descriptor.name.s \in DOMAIN name_to_group
    THEN name_to_group[descriptor.name.s]
    ELSE LET tags == IF IsList(descriptor.tags) THEN descriptor.tags.elems
                     ELSE <<>>
             mapping == {i \in DOMAIN tags :
                            ~IsNum(tags[i]) /\ tags[i].s \in DOMAIN tag_to_group}
         IN  IF mapping = {} THEN "none"
             ELSE tag_to_group[tags[CHOOSE i \in mapping :
                                        \A j \in mapping : i <= j].s]

\* The loop over a skill's tags raises TypeError when the tags are a number
\* and the name is not in the name table.
GroupingRaises(descriptor) ==
    /\ ~(~IsNum(descriptor.name) /\ descriptor.name.s \in DOMAIN name_to_group)
    /\ IsNum(descriptor.tags)

\* The loop of get_parallel_groups over the sorted skills, from the i-th on.
RECURSIVE GroupsFrom(_, _, _)
GroupsFrom(groups, sorted, i) ==
    IF i > Len(sorted) THEN [value |-> groups, exc |-> None]
    ELSE IF GroupingRaises(sorted[i])
    THEN [value |-> None,
          exc |-> [type |-> "TypeError", msg |-> "'int' object is not iterable"]]
    ELSE IF GroupOfSkill(sorted[i]) = "none" THEN GroupsFrom(groups, sorted, i + 1)
    ELSE GroupsFrom(AddToGroup(groups, GroupOfSkill(sorted[i]), sorted[i].name),
                    sorted, i + 1)

\* What get_parallel_groups returns: the groups that got a name, each with its names in
\* the order they were added.
ParallelGroups(skills) ==
    LET sorted == skills_sorted(skills) IN
    IF sorted.exc # None THEN sorted
    ELSE LET r == GroupsFrom([g \in Elems(GroupNames) |-> <<>>], sorted.value, 1) IN
         IF r.exc # None THEN r
         ELSE [value |-> [g \in {h \in Elems(GroupNames) : r.value[h] # <<>>} |->
                             r.value[g]],
               exc |-> None]

----------------------------------------------------------------------------
(* registry.py: definition files and directories *)

\* The lines of a metadata block.
Line(key, value) == [key |-> key, value |-> value]

WellFormed(name) ==
    <<Line("name", Scalar(name)), Line("description", Scalar("text")),
      Line("version", Scalar("1.0.0"))>>

\* Definition files: a readable text with a metadata block of key lines, a
\* text without one, and a file that cannot be read as UTF-8.
File(lines) ==
    [readable |-> TRUE, text |-> [has_block |-> TRUE, lines |-> lines]]

Garbled == [readable |-> TRUE, text |-> [has_block |-> FALSE, lines |-> <<>>]]

EmptyBlock == File(<<>>)

Unreadable == [readable |-> FALSE, text |-> [has_block |-> FALSE, lines |-> <<>>]]

\* A subdirectory of the skills directory, with or without a SKILL.md.
Entry(path, file) == [path |-> path, is_file |-> TRUE, file |-> file]

NoSkillMd(path) == [path |-> path, is_file |-> FALSE, file |-> Unreadable]

Directory(entries) == [is_dir |-> TRUE, entries |-> entries]

NoDirectory == [is_dir |-> FALSE, entries |-> <<>>]

\* The project's skills directory of the executor's specifications.
ProjectDir(threshold) ==
    LET lines(n) == IF threshold = Num(50) THEN WellFormed(n)
                    ELSE Append(WellFormed(n),
                                Line("confidence_threshold", Scalar("0.9")))
    IN  Directory(<<Entry("a", File(lines("a"))), Entry("b", File(lines("b")))>>)

----------------------------------------------------------------------------
(* executor.py: routing *)

\* A Python call either returns a value or raises.
Returned(v) == [raised |-> FALSE, value |-> v]

Raised(type, msg) == [raised |-> TRUE, type |-> type, msg |-> msg]

should_auto_execute(r) == Ge(r.confidence, THRESHOLD_AUTO)

should_notify(r) ==
    Ge(r.confidence, THRESHOLD_NOTIFY) /\ Lt(r.confidence, THRESHOLD_AUTO)

\* Faulty variant: the pause band takes the boundary value in.
should_pause_inclusive(r) ==
    IsNum(r.confidence) /\ r.confidence.i <= THRESHOLD_NOTIFY

should_pause(r) == Lt(r.confidence, THRESHOLD_NOTIFY)

\* Faulty variant: a dict of exactly max_keys keys is cut too.
truncate_data_OffByOne(data) ==
    IF IsDict(data)
    THEN IF Len(data.dict) < max_keys THEN Returned(data)
         ELSE Returned(Dict(SubSeq(data.dict, 1, max_keys - 1)
                  \o <<[k |-> "_truncated", v |-> Flag(TRUE)],
                       [k |-> "_total_keys", v |-> Num(Len(data.dict))]>>))
    ELSE IF IsList(data)
    THEN IF data.list <= max_keys THEN Returned(data)
         ELSE Raised("AttributeError", "'list' object has no attribute 'keys'")
    ELSE Raised("TypeError", "object of type 'NoneType' has no len()")

\* len(data) exists for dicts and lists only; .keys() for dicts only.
truncate_data(data) ==
    IF IsDict(data)
    THEN IF Len(data.dict) <= max_keys
         THEN Returned(data)
         ELSE Returned(Dict(SubSeq(data.dict, 1, max_keys)
                  \o <<[k |-> "_truncated", v |-> Flag(TRUE)],
                       [k |-> "_total_keys", v |-> Num(Len(data.dict))]>>))
    ELSE IF IsList(data)
    THEN IF data.list <= max_keys
         THEN Returned(data)
         ELSE Raised("AttributeError", "'list' object has no attribute 'keys'")
    ELSE Raised("TypeError", "object of type 'NoneType' has no len()")

PauseOptions ==
    <<[id |-> 1, label |-> "Accept result as-is"],
      [id |-> 2, label |-> "Re-run with more context"],
      [id |-> 3, label |-> "Skip this skill"],
      [id |-> 4, label |-> "Provide manual input"]>>

\* The question's text embeds the name, the confidence and the threshold.
route_low_confidence(r) ==
    LET preview == truncate_data(r.data) IN
    IF preview.raised THEN preview
    ELSE Returned([action |-> "pause_for_human",
                   skill_name |-> r.skill_name,
                   confidence |-> r.confidence,
                   errors |-> r.errors,
                   ambiguity_detected |-> TRUE,
                   question |-> [skill_name |-> r.skill_name,
                                 confidence |-> r.confidence,
                                 threshold |-> THRESHOLD_NOTIFY],
                   options |-> PauseOptions,
                   data_preview |-> preview.value])

\* Faulty variant: the pause band ends at the descriptor's confidence_threshold.
apply_routing_ByDescriptor(r, descriptor) ==
    IF IsNum(r.confidence) /\ IsNum(descriptor.confidence_threshold)
          /\ r.confidence.i < descriptor.confidence_threshold.i
    THEN LET prompt == route_low_confidence(r) IN
         IF prompt.raised THEN prompt
         ELSE Returned([r EXCEPT !.requires_user_input = TRUE,
                                 !.user_prompt = prompt.value])
    ELSE Returned(r)

\* _apply_routing(result, descriptor): the descriptor is not read.
apply_routing(r, descriptor) ==
    IF should_pause(r)
    THEN LET prompt == route_low_confidence(r) IN
         IF prompt.raised THEN prompt
         ELSE Returned([r EXCEPT !.requires_user_input = TRUE,
                                 !.user_prompt = prompt.value])
    ELSE Returned(r)

----------------------------------------------------------------------------
(* executor.py: execute *)

\* Faulty variant: the placeholder reports the notify band's lowest confidence.
default_handler_confident(skill_name) ==
    Returned([confidence |-> Num(THRESHOLD_NOTIFY), data |-> Dict(<<>>),
              errors |-> [l |-> <<"No handler registered for skill '" \o skill_name
                           \o "'. Register one via executor.register_handler().">>]])

default_handler(skill_name) ==
    Returned([confidence |-> Num(0), data |-> Dict(<<>>),
              errors |-> [l |-> <<"No handler registered for skill '" \o skill_name
                           \o "'. Register one via executor.register_handler().">>]])

\* raw.get(key, default) on the handler's return value.
RawGet(raw, key, default) == IF raw[key] = Missing THEN default ELSE raw[key]

\* The handler's return value seen as the payload (no "data" key).
RawAsDict(raw) ==
    Dict((IF raw.confidence = Missing THEN <<>>
          ELSE <<[k |-> "confidence", v |-> raw.confidence]>>)
         \o (IF raw.errors = Missing THEN <<>>
             ELSE <<[k |-> "errors", v |-> raw.errors]>>))

\* Faulty variant: the error is the message alone, without the exception's type.
exception_result_message_only(skill_name, type, msg) ==
    SkillResult(skill_name, FALSE, Num(0), Dict(<<>>), <<msg>>)

\* Lines 142-152: the result for an exception of the given type and message.
exception_result(skill_name, type, msg) ==
    SkillResult(skill_name, FALSE, Num(0), Dict(<<>>), <<type \o ": " \o msg>>)

\* Faulty variant: success also asks for a confidence out of the pause band.
WrapOutcome_ConfidenceGated(skill_name, outcome) ==
    LET exc(type, msg) == exception_result(skill_name, type, msg) IN
    IF outcome.raised THEN exc(outcome.type, outcome.msg)
    ELSE LET raw == outcome.value IN
    IF raw = None THEN exc("AttributeError", "'NoneType' object has no attribute 'get'")
    ELSE LET c == RawGet(raw, "confidence", Num(0))
             e == RawGet(raw, "errors", [l |-> <<>>])
         IN
    IF "s" \in DOMAIN c
    THEN exc("ValueError", "could not convert string to float: '" \o c.s \o "'")
    ELSE IF e = None THEN exc("TypeError", "object of type 'NoneType' has no len()")
    ELSE SkillResult(skill_name, Len(e.l) = 0 /\ Ge(c, THRESHOLD_NOTIFY), c,
                     IF raw.data = Missing THEN RawAsDict(raw) ELSE raw.data, e.l)

\* Lines 126-152: the try block, from the handler's outcome to the result.
WrapOutcome(skill_name, outcome) ==
    LET exc(type, msg) == exception_result(skill_name, type, msg) IN
    IF outcome.raised THEN exc(outcome.type, outcome.msg)
    ELSE LET raw == outcome.value IN
    IF raw = None THEN exc("AttributeError", "'NoneType' object has no attribute 'get'")
    ELSE LET c == RawGet(raw, "confidence", Num(0))
             e == RawGet(raw, "errors", [l |-> <<>>])
         IN
    IF "s" \in DOMAIN c
    THEN exc("ValueError", "could not convert string to float: '" \o c.s \o "'")
    ELSE IF e = None THEN exc("TypeError", "object of type 'NoneType' has no len()")
    ELSE SkillResult(skill_name, Len(e.l) = 0, c,
                     IF raw.data = Missing THEN RawAsDict(raw) ELSE raw.data, e.l)

LogEntry(event, body) == [event |-> event, body |-> body]

\* _log_execution: the line is appended unless the write fails (OSError, caught).
log_execution(log, r) ==
    IF log_ok THEN Append(log, LogEntry("skill_execution", to_dict(r))) ELSE log

\* Faulty variant: the callback is invoked for every result below the auto band.
Notifies_BelowAuto(r) ==
    Lt(r.confidence, AUTO_EXECUTE_THRESHOLD) /\ notify_callback # "none"

\* Line 159: the condition under which the callback is invoked.
Notifies(r) == needs_notification(r) /\ notify_callback # "none"

\* Line 161: one invocation of the callback: the result it is given, and the
\* number of execution-log lines there are when it is invoked.
Notification(r, log) == [result |-> r, log_len |-> Len(log)]

----------------------------------------------------------------------------
(* Contexts.  A context is a dict: its top-level keys, and under             *)
(* "prior_results" a reference to a mapping object of the heap ("absent"   *)
(* when the key is not there).  dict(context) and {**context} copy the     *)
(* top level only, so copies share the mapping.                            *)

\* A dict is an object: `id` tells the dict objects apart, and a write to a
\* dict shows in every place that holds the same object.  The dict the caller
\* passes in is the object "caller".
Context(keys, pr) == [keys |-> keys, pr |-> pr, id |-> <<"caller", 0, 0>>]

\* dict(context): a new dict object, named id, with the same items.
CopyContext(ctx, id) == [keys |-> ctx.keys, pr |-> ctx.pr, id |-> id]

\* Faulty variant: the handler is given the context of the execute call itself.
HandlerContext_Shared(ctx, id) == [ctx EXCEPT !.keys = @ \cup {"graph_store"}]

\* {**context, "graph_store": self.graph_store}: a new dict object as well.
HandlerContext(ctx, id) ==
    [keys |-> ctx.keys \cup {"graph_store"}, pr |-> ctx.pr, id |-> id]

EmptyMap == [n \in {} |-> None]

\* mapping[name] = value
MapSet(m, name, value) == (name :> value) @@ m

\* The names under prior_results as a context shows them in heap h.
PriorNames(h, ctx) == IF ctx.pr = "absent" THEN {} ELSE DOMAIN h[ctx.pr]

\* Faulty variant: the mapping is replaced by one that holds the new entry only.
SetPrior_Replace(h, ctx, name, value) ==
    IF ctx.pr = "absent"
    THEN [ctx |-> [ctx EXCEPT !.pr = "engine"],
          heap |-> [h EXCEPT !.engine = MapSet(EmptyMap, name, value)]]
    ELSE [ctx |-> ctx,
          heap |-> [h EXCEPT ![ctx.pr] = MapSet(EmptyMap, name, value)]]

\* ctx.setdefault("prior_results", {})[name] = value, on context ctx in heap h:
\* the context and the heap afterwards.
SetPrior(h, ctx, name, value) ==
    IF ctx.pr = "absent"
    THEN [ctx |-> [ctx EXCEPT !.pr = "engine"],
          heap |-> [h EXCEPT !.engine = MapSet(EmptyMap, name, value)]]
    ELSE [ctx |-> ctx,
          heap |-> [h EXCEPT ![ctx.pr] = MapSet(h[ctx.pr], name, value)]]

----------------------------------------------------------------------------
(* One execute call is a task: where it was made (step, pos), its name,    *)
(* its status ("created": scheduled by create_task and not yet run;        *)
(* "running": awaiting its handler; "done": returned result; "raised"),    *)
(* the context its handler got, the prior_results names it showed at the   *)
(* invocation, and what the handler did (outcome).                         *)

Task(step, pos, name, ctx) ==
    [step |-> step, pos |-> pos, name |-> name, status |-> "created",
     ctx |-> ctx, invoked |-> FALSE, seen |-> {}, outcome |-> None,
     result |-> None, exc |-> None]

\* Faulty variant: a failed write of the log entry leaves execute as OSError,
\* before the notification.
Complete_LogFatal(t, outcome, log, ntf) ==
    LET routed == apply_routing(WrapOutcome(t.name, outcome), registry[t.name]) IN
    IF routed.raised
    THEN [task |-> [t EXCEPT !.status = "raised", !.outcome = outcome,
                             !.exc = [type |-> routed.type, msg |-> routed.msg]],
          log |-> log, notified |-> ntf]
    ELSE IF ~log_ok
    THEN [task |-> [t EXCEPT !.status = "raised", !.outcome = outcome,
                             !.exc = [type |-> "OSError", msg |-> "write failed"]],
          log |-> log, notified |-> ntf]
    ELSE [task |-> [t EXCEPT !.status = "done", !.outcome = outcome,
                             !.result = routed.value],
          log |-> log_execution(log, routed.value),
          notified |-> IF Notifies(routed.value)
                       THEN Append(ntf, Notification(routed.value,
                                        log_execution(log, routed.value)))
                       ELSE ntf]

\* Faulty variant: an exception of the callback leaves execute.
Complete_CallbackFatal(t, outcome, log, ntf) ==
    LET routed == apply_routing(WrapOutcome(t.name, outcome), registry[t.name]) IN
    IF routed.raised
    THEN [task |-> [t EXCEPT !.status = "raised", !.outcome = outcome,
                             !.exc = [type |-> routed.type, msg |-> routed.msg]],
          log |-> log, notified |-> ntf]
    ELSE IF Notifies(routed.value) /\ notify_callback = "raises"
    THEN [task |-> [t EXCEPT !.status = "raised", !.outcome = outcome,
                             !.exc = [type |-> "RuntimeError", msg |-> "callback"]],
          log |-> log_execution(log, routed.value),
          notified |-> Append(ntf, Notification(routed.value,
                                   log_execution(log, routed.value)))]
    ELSE [task |-> [t EXCEPT !.status = "done", !.outcome = outcome,
                             !.result = routed.value],
          log |-> log_execution(log, routed.value),
          notified |-> IF Notifies(routed.value)
                       THEN Append(ntf, Notification(routed.value,
                                        log_execution(log, routed.value)))
                       ELSE ntf]

\* Lines 154-165 after the try block: routing, log, notification.
\* Gives the task, the execution log and the notifications afterwards.
Complete(t, outcome, log, ntf) ==
    LET routed == apply_routing(WrapOutcome(t.name, outcome), registry[t.name]) IN
    IF routed.raised
    THEN [task |-> [t EXCEPT !.status = "raised", !.outcome = outcome,
                             !.exc = [type |-> routed.type, msg |-> routed.msg]],
          log |-> log, notified |-> ntf]
    ELSE [task |-> [t EXCEPT !.status = "done", !.outcome = outcome,
                             !.result = routed.value],
          log |-> log_execution(log, routed.value),
          notified |-> IF Notifies(routed.value)
                       THEN Append(ntf, Notification(routed.value,
                                        log_execution(log, routed.value)))
                       ELSE ntf]

\* Faulty variant: the handler table is consulted before the registry.
Begin_HandlerFirst(t, log, ntf) ==
    LET t1 == [t EXCEPT !.status = "running", !.invoked = TRUE,
                        !.ctx = HandlerContext(t.ctx, <<"handler", t.step, t.pos>>),
                        !.seen = PriorNames(heap, t.ctx)]
    IN IF t.name \in handlers
       THEN [task |-> t1, log |-> log, notified |-> ntf]
       ELSE IF t.name \notin DOMAIN registry
       THEN LET r == error_result(t.name, "Skill '" \o t.name \o "' not found in registry")
            IN [task |-> [t EXCEPT !.status = "done", !.result = r],
                log |-> log_execution(log, r), notified |-> ntf]
       ELSE Complete(t1, default_handler(t.name), log, ntf)

\* Lines 114-126: execute up to its first suspension.  A missing skill
\* returns at once; the default handler never suspends; a registered handler
\* is invoked and awaited.
Begin(t, log, ntf) ==
    IF t.name \notin DOMAIN registry
    THEN LET r == error_result(t.name, "Skill '" \o t.name \o "' not found in registry")
         IN [task |-> [t EXCEPT !.status = "done", !.result = r],
             log |-> log_execution(log, r), notified |-> ntf]
    ELSE LET t1 == [t EXCEPT !.status = "running", !.invoked = TRUE,
                             !.ctx = HandlerContext(t.ctx, <<"handler", t.step, t.pos>>),
                             !.seen = PriorNames(heap, t.ctx)]
         IN IF t.name \in handlers
            THEN [task |-> t1, log |-> log, notified |-> ntf]
            ELSE Complete(t1, default_handler(t.name), log, ntf)

----------------------------------------------------------------------------
(* Inputs *)

SkillNames == {"a", "b", "m"}

MaxSteps == 2

Seqs(S, n) == UNION {[1..k -> S] : k \in 0..n}

\* The caller's context: without prior_results, or with a mapping of its own.
CallerContexts == {Context({"since"}, "absent"), Context({"since"}, "caller")}

\* The contexts pipelines are run from.
PipelineContexts == {Context({"since"}, "absent")}

CallerHeap(ctx) ==
    [caller |-> IF ctx.pr = "caller"
                THEN MapSet(EmptyMap, "b",
                            to_dict(SkillResult("b", TRUE, Num(100), Dict(<<>>), <<>>)))
                ELSE EmptyMap,
     engine |-> EmptyMap]

\* A pipeline argument has at most MaxSteps steps and MaxSkills names in all;
\* a parallel or sequential step names at least one skill.
\* The loop reads it one step at a time, and the model draws each step as the
\* loop reaches it: call.pipeline holds the steps read so far.
RECURSIVE TotalNames(_)
TotalNames(pipeline) ==
    IF pipeline = <<>> THEN 0
    ELSE Len(Head(pipeline).names) + TotalNames(Tail(pipeline))

NextNames(pipeline) ==
    Seqs(SkillNames, MaxSkills - TotalNames(pipeline)) \ {<<>>}

\* What a registered handler may do when execute is called on its own.
Confidences ==
    {Missing, Text("high"), NaN, Num(0), Num(49), Num(50), Num(79), Num(80), Num(100)}

ErrorsValues == {Missing, None, [l |-> <<>>], [l |-> <<"boom">>]}

DataValues ==
    {Missing, None, Dict(<<>>), DictOfSize(max_keys), DictOfSize(max_keys + 1),
     List(2), List(max_keys + 1)}

HandlerOutcomes ==
    {Returned([confidence |-> c, errors |-> e, data |-> d]) :
        c \in Confidences, e \in ErrorsValues, d \in DataValues}
    \cup {Returned(None), Raised("ValueError", "x"), Raised("KeyError", "'k'")}

\* What a registered handler may do inside a parallel call or a pipeline.
PipelineOutcomes ==
    {Returned([confidence |-> Num(90), errors |-> Missing, data |-> DictOfSize(1)]),
     Returned([confidence |-> Num(60), errors |-> [l |-> <<"boom">>], data |-> Missing]),
     Returned([confidence |-> Num(10), errors |-> Missing, data |-> None]),
     Raised("ValueError", "x")}

----------------------------------------------------------------------------
(* State machine *)

discovery == <<skills_dir, strict, validation_warnings, scan_ret, scan_start,
               query_call, query_ret>>

graph == <<nodes, edges, now, store_call, store_before, store_ret>>

config == <<registry, discovery, graph, handlers, notify_callback, log_ok>>

pipe == <<running_context, step_index, step_results, all_results, failed,
          step_start>>

\* GraphStore.__init__ on a new database file: both tables exist and are empty.
GraphCreated ==
    /\ nodes = {}
    /\ edges = {}
    /\ now = 0
    /\ store_call = None
    /\ store_before = None
    /\ store_ret = None

\* The executor's registry has scanned the project's skills directory.
ProjectScanned(threshold) ==
    /\ registry = Registered(threshold)
    /\ skills_dir = ProjectDir(threshold)
    /\ strict = FALSE
    /\ validation_warnings = <<>>
    /\ scan_ret = [skills |-> skills_sorted(Registered(threshold)).value]
    /\ scan_start = FALSE
    /\ query_call = None
    /\ query_ret = None

Init ==
    /\ \E threshold \in {Num(50), Num(90)} : ProjectScanned(threshold)
    /\ handlers = {}
    /\ notify_callback = "none"
    /\ log_ok \in BOOLEAN
    /\ caller_context = Context({}, "absent")
    /\ heap = CallerHeap(Context({}, "absent"))
    /\ pc = "idle"
    /\ call = [kind |-> "none"]
    /\ tasks = <<>>
    /\ running_context = Context({}, "absent")
    /\ step_start = Context({}, "absent")
    /\ step_index = 0
    /\ step_results = <<>>
    /\ all_results = <<>>
    /\ failed = <<>>
    /\ exec_log = <<>>
    /\ pipeline_log = <<>>
    /\ notified = <<>>
    /\ ret = None
    /\ GraphCreated

\* An executor on which the caller registered handlers for "a" and "m" and a
\* notification callback.
InitPipeline ==
    /\ ProjectScanned(Num(50))
    /\ handlers = {"a", "m"}
    /\ notify_callback = "ok"
    /\ log_ok = TRUE
    /\ caller_context = Context({}, "absent")
    /\ heap = CallerHeap(Context({}, "absent"))
    /\ pc = "idle"
    /\ call = [kind |-> "none"]
    /\ tasks = <<>>
    /\ running_context = Context({}, "absent")
    /\ step_start = Context({}, "absent")
    /\ step_index = 0
    /\ step_results = <<>>
    /\ all_results = <<>>
    /\ failed = <<>>
    /\ exec_log = <<>>
    /\ pipeline_log = <<>>
    /\ notified = <<>>
    /\ ret = None
    /\ GraphCreated

register_handler(skill_name) ==
    /\ pc = "idle"
    /\ handlers' = handlers \cup {skill_name}
    /\ UNCHANGED <<registry, discovery, graph, notify_callback, log_ok, caller_context,
                   heap, pc,
                   call, tasks, pipe, exec_log, pipeline_log, notified, ret>>

set_notify_callback(callback) ==
    /\ pc = "idle"
    /\ notify_callback' = callback
    /\ UNCHANGED <<registry, discovery, graph, handlers, log_ok, caller_context, heap, pc,
                   call, tasks, pipe, exec_log, pipeline_log, notified, ret>>

\* What the awaiting caller of a finished execute call does next.
\* execute called on its own: the call returns or raises.
AfterSingle(t) ==
    /\ pc' = IF t.status = "done" THEN "done"
             ELSE IF t.status = "raised" THEN "raised" ELSE pc
    /\ ret' = IF t.status = "done" THEN [result |-> t.result]
              ELSE IF t.status = "raised" THEN [exc |-> t.exc] ELSE ret

\* Faulty variant: the result is stored and not fed into prior_results.
AfterSequential_NoFeed(t) ==
    IF t.status = "done"
    THEN /\ step_results' = Append(step_results, t.result)
         /\ UNCHANGED <<pc, ret, heap, running_context, step_index, all_results,
                        failed, step_start>>
    ELSE IF t.status = "raised"
    THEN /\ pc' = "raised"
         /\ ret' = [exc |-> t.exc]
         /\ UNCHANGED <<heap, pipe>>
    ELSE UNCHANGED <<pc, ret, heap, pipe>>

\* Lines 243-246: a sequential step stores the result and feeds it into
\* prior_results; an exception leaves execute_pipeline.
AfterSequential(t) ==
    IF t.status = "done"
    THEN LET upd == SetPrior(heap, running_context, t.name, to_dict(t.result)) IN
         /\ step_results' = Append(step_results, t.result)
         /\ running_context' = upd.ctx
         /\ heap' = upd.heap
         /\ UNCHANGED <<pc, ret, step_index, all_results, failed, step_start>>
    ELSE IF t.status = "raised"
    THEN /\ pc' = "raised"
         /\ ret' = [exc |-> t.exc]
         /\ UNCHANGED <<heap, pipe>>
    ELSE UNCHANGED <<pc, ret, heap, pipe>>

execute(skill_name, context) ==
    /\ pc = "idle"
    /\ LET b == Begin(Task(0, 1, skill_name, context), exec_log, notified) IN
       /\ tasks' = <<b.task>>
       /\ exec_log' = b.log
       /\ notified' = b.notified
       /\ caller_context' = context
       /\ heap' = CallerHeap(context)
       /\ call' = [kind |-> "execute", skill_name |-> skill_name]
       /\ IF b.task.status = "running"
          THEN pc' = "execute" /\ UNCHANGED ret
          ELSE AfterSingle(b.task)
    /\ UNCHANGED <<config, pipe, pipeline_log>>

\* Faulty variant: a result of a parallel step is fed into prior_results as
\* soon as its task is done.
HandlerDone_FeedParallel(outcomes) ==
    \E i \in DOMAIN tasks, o \in outcomes :
        /\ tasks[i].status = "running"
        /\ LET c == Complete(tasks[i], o, exec_log, notified) IN
           /\ tasks' = [tasks EXCEPT ![i] = c.task]
           /\ exec_log' = c.log
           /\ notified' = c.notified
           /\ IF pc = "execute" THEN AfterSingle(c.task) /\ UNCHANGED <<heap, pipe>>
              ELSE IF pc = "pipeline_sequential" /\ tasks[i].step = step_index
              THEN AfterSequential(c.task)
              ELSE IF pc = "pipeline_parallel" /\ c.task.status = "done"
              THEN LET upd == SetPrior(heap, running_context, c.task.name,
                                       to_dict(c.task.result))
                   IN /\ running_context' = upd.ctx
                      /\ heap' = upd.heap
                      /\ UNCHANGED <<pc, ret, step_index, step_results,
                                     all_results, failed, step_start>>
              ELSE UNCHANGED <<pc, ret, heap, pipe>>
        /\ UNCHANGED <<config, caller_context, call, pipeline_log>>

\* A registered handler returns or raises, and its execute call runs to its end.
HandlerDone(outcomes) ==
    \E i \in DOMAIN tasks, o \in outcomes :
        /\ tasks[i].status = "running"
        /\ LET c == Complete(tasks[i], o, exec_log, notified) IN
           /\ tasks' = [tasks EXCEPT ![i] = c.task]
           /\ exec_log' = c.log
           /\ notified' = c.notified
           /\ IF pc = "execute" THEN AfterSingle(c.task) /\ UNCHANGED <<heap, pipe>>
              ELSE IF pc = "pipeline_sequential" /\ tasks[i].step = step_index
              THEN AfterSequential(c.task)
              ELSE UNCHANGED <<pc, ret, heap, pipe>>
        /\ UNCHANGED <<config, caller_context, call, pipeline_log>>

\* create_task: the scheduled execute call starts running.  The event loop
\* runs the first step of its tasks in the order of their creation.
TaskStart ==
    \E i \in DOMAIN tasks :
        /\ tasks[i].status = "created"
        /\ \A j \in 1..(i - 1) : tasks[j].status # "created"
        /\ LET b == Begin(tasks[i], exec_log, notified) IN
           /\ tasks' = [tasks EXCEPT ![i] = b.task]
           /\ exec_log' = b.log
           /\ notified' = b.notified
        /\ UNCHANGED <<config, caller_context, heap, pc, call, pipe,
                       pipeline_log, ret>>

\* The tasks made at pipeline step `step` (0: by a call of execute_parallel).
GroupOf(step) == SelectSeq(tasks, LAMBDA t : t.step = step)

\* Faulty variant: the results in the order in which the tasks completed.
Gather_ByCompletion(group) ==
    [k \in DOMAIN group |-> exec_log[Len(exec_log) - Len(group) + k].body]

\* asyncio.gather: the results in the order of the awaitables it was given.
Gather(group) == [k \in DOMAIN group |-> group[k].result]

\* Lines 185-189: one task per name, each on its own copy of the context.
CreateTasks(step, skill_names, context) ==
    [k \in DOMAIN skill_names |-> Task(step, k, skill_names[k],
                               CopyContext(context, <<"copy", step, k>>))]

execute_parallel(skill_names, context) ==
    /\ pc = "idle"
    /\ pc' = "parallel"
    /\ call' = [kind |-> "parallel", skill_names |-> skill_names]
    /\ caller_context' = context
    /\ heap' = CallerHeap(context)
    /\ tasks' = CreateTasks(0, skill_names, context)
    /\ UNCHANGED <<config, pipe, exec_log, pipeline_log, notified, ret>>

\* gather returns once every task is done.
ParallelReturn ==
    /\ pc = "parallel"
    /\ \A i \in DOMAIN tasks : tasks[i].status = "done"
    /\ pc' = "done"
    /\ ret' = [results |-> Gather(GroupOf(0))]
    /\ UNCHANGED <<config, caller_context, heap, call, tasks, pipe, exec_log,
                   pipeline_log, notified>>

\* gather (return_exceptions=False) raises as soon as one task has raised;
\* the other tasks keep running.  Nothing catches it in execute_parallel or
\* in execute_pipeline.
GatherRaise ==
    /\ pc \in {"parallel", "pipeline_parallel"}
    /\ \E i \in DOMAIN tasks :
          /\ tasks[i].step = (IF pc = "parallel" THEN 0 ELSE step_index)
          /\ tasks[i].status = "raised"
          /\ ret' = [exc |-> tasks[i].exc]
    /\ pc' = "raised"
    /\ UNCHANGED <<config, caller_context, heap, call, tasks, pipe, exec_log,
                   pipeline_log, notified>>

----------------------------------------------------------------------------
(* executor.py: execute_pipeline *)

CurrentStep == call.pipeline[step_index]

execute_pipeline(context) ==
    /\ pc = "idle"
    /\ pc' = "pipeline"
    /\ call' = [kind |-> "pipeline", pipeline |-> <<>>]
    /\ caller_context' = context
    /\ heap' = CallerHeap(context)
    /\ running_context' = CopyContext(context, <<"running", 0, 0>>)
    /\ step_start' = CopyContext(context, <<"running", 0, 0>>)
    /\ step_index' = 1
    /\ step_results' = <<>>
    /\ all_results' = <<>>
    /\ failed' = <<>>
    /\ UNCHANGED <<config, tasks, exec_log, pipeline_log, notified, ret>>

\* The loop reads the next step of the pipeline.
ReadStep(step) ==
    /\ pc = "pipeline"
    /\ Len(call.pipeline) < MaxSteps
    /\ call' = [call EXCEPT !.pipeline = Append(@, step)]

\* Lines 226-233: a parallel step hands its names to execute_parallel.
StepParallel ==
    /\ pc = "pipeline"
    /\ \E ns \in NextNames(call.pipeline) :
          /\ ReadStep([tag |-> "parallel", names |-> ns])
          /\ tasks' = tasks \o CreateTasks(step_index, ns, running_context)
    /\ pc' = "pipeline_parallel"
    /\ step_results' = <<>>
    /\ step_start' = running_context
    /\ UNCHANGED <<config, caller_context, heap, running_context, step_index,
                   all_results, failed, exec_log, pipeline_log, notified, ret>>

\* Lines 235-242: a sequential step starts its loop.
StepSequential ==
    /\ pc = "pipeline"
    /\ \E ns \in NextNames(call.pipeline) :
          ReadStep([tag |-> "sequential", names |-> ns])
    /\ pc' = "pipeline_sequential"
    /\ step_results' = <<>>
    /\ step_start' = running_context
    /\ UNCHANGED <<config, caller_context, heap, tasks, running_context,
                   step_index, all_results, failed, exec_log, pipeline_log,
                   notified, ret>>

\* Faulty variant: a step with neither tag is fatal.
StepSkip_Fatal ==
    /\ pc = "pipeline"
    /\ ReadStep([tag |-> "other", names |-> <<>>])
    /\ step_results' = <<>>
    /\ pc' = "raised"
    /\ ret' = [exc |-> [type |-> "KeyError", msg |-> "'parallel'"]]
    /\ UNCHANGED <<config, caller_context, heap, tasks, running_context,
                   step_index, all_results, failed, step_start, exec_log,
                   pipeline_log, notified>>

\* Lines 224, 247-253: a step with neither tag is skipped.
StepSkip ==
    /\ pc = "pipeline"
    /\ ReadStep([tag |-> "other", names |-> <<>>])
    /\ step_index' = step_index + 1
    /\ step_results' = <<>>
    /\ UNCHANGED <<config, caller_context, heap, pc, tasks, running_context,
                   all_results, failed, step_start, exec_log,
                   pipeline_log, notified, ret>>

\* Faulty variant: the loop does not await a call before it makes the next one.
SeqNext_NoAwait ==
    /\ pc = "pipeline_sequential"
    /\ Len(GroupOf(step_index)) < Len(CurrentStep.names)
    /\ LET k == Len(GroupOf(step_index)) + 1
           b == Begin(Task(step_index, k, CurrentStep.names[k], running_context),
                      exec_log, notified)
       IN /\ tasks' = Append(tasks, b.task)
          /\ exec_log' = b.log
          /\ notified' = b.notified
          /\ AfterSequential(b.task)
    /\ UNCHANGED <<config, caller_context, call, pipeline_log>>

\* Line 243: the loop calls execute for the next name, on running_context.
SeqNext ==
    /\ pc = "pipeline_sequential"
    /\ Len(GroupOf(step_index)) = Len(step_results)
    /\ Len(step_results) < Len(CurrentStep.names)
    /\ LET k == Len(step_results) + 1
           b == Begin(Task(step_index, k, CurrentStep.names[k], running_context),
                      exec_log, notified)
       IN /\ tasks' = Append(tasks, b.task)
          /\ exec_log' = b.log
          /\ notified' = b.notified
          /\ AfterSequential(b.task)
    /\ UNCHANGED <<config, caller_context, call, pipeline_log>>

\* Faulty variant: the step's results are not merged into prior_results.
MergeResults_Skip(h, ctx, results) == [ctx |-> ctx, heap |-> h]

\* Lines 256-260 for one result after another.
RECURSIVE MergeResults(_, _, _)
MergeResults(h, ctx, results) ==
    IF results = <<>> THEN [ctx |-> ctx, heap |-> h]
    ELSE LET r == Head(results)
             upd == SetPrior(h, ctx, r.skill_name, to_dict(r))
         IN MergeResults(upd.heap, upd.ctx, Tail(results))

\* [r.skill_name for r in results]
SkillNamesOf(results) == [k \in DOMAIN results |-> results[k].skill_name]

\* Lines 259-260: the names appended to failed.
FailedNames(results) == SkillNamesOf(SelectSeq(results, LAMBDA r : ~r.success))

\* Lines 255-260, then the loop goes to the next step.
Accumulate(results) ==
    LET upd == MergeResults(heap, running_context, results) IN
    /\ all_results' = all_results \o results
    /\ running_context' = upd.ctx
    /\ heap' = upd.heap
    /\ failed' = failed \o FailedNames(results)
    /\ step_index' = step_index + 1
    /\ pc' = "pipeline"

\* Faulty variant: the step goes on as soon as one of its tasks is done.
StepJoin_FirstCompleted ==
    /\ pc = "pipeline_parallel"
    /\ \E i \in DOMAIN tasks : tasks[i].step = step_index /\ tasks[i].status = "done"
    /\ LET done == SelectSeq(GroupOf(step_index), LAMBDA t : t.status = "done") IN
       /\ step_results' = Gather(done)
       /\ Accumulate(Gather(done))
    /\ UNCHANGED <<config, caller_context, call, tasks, step_start, exec_log,
                   pipeline_log, notified, ret>>

\* Faulty variant: the step gives up on the handlers that have not returned
\* and goes on with the results there are.
StepJoin_TimedOut ==
    /\ pc = "pipeline_parallel"
    /\ \A i \in DOMAIN tasks :
          tasks[i].step = step_index => tasks[i].status \in {"done", "running"}
    /\ LET done == SelectSeq(GroupOf(step_index), LAMBDA t : t.status = "done") IN
       /\ step_results' = Gather(done)
       /\ Accumulate(Gather(done))
    /\ UNCHANGED <<config, caller_context, call, tasks, step_start, exec_log,
                   pipeline_log, notified, ret>>

\* execute_parallel returned the step's results (line 233).
StepJoin ==
    /\ pc = "pipeline_parallel"
    /\ \A i \in DOMAIN tasks : tasks[i].step = step_index => tasks[i].status = "done"
    /\ step_results' = Gather(GroupOf(step_index))
    /\ Accumulate(Gather(GroupOf(step_index)))
    /\ UNCHANGED <<config, caller_context, call, tasks, step_start, exec_log,
                   pipeline_log, notified, ret>>

\* The sequential loop is through its names.
SeqEnd ==
    /\ pc = "pipeline_sequential"
    /\ Len(step_results) = Len(CurrentStep.names)
    /\ Accumulate(step_results)
    /\ UNCHANGED <<config, caller_context, call, tasks, step_results, step_start,
                   exec_log, pipeline_log, notified, ret>>

\* Faulty variant: the first result of a name is the one that stays.
ResultsByName_KeepFirst(results) ==
    [n \in {results[i].skill_name : i \in DOMAIN results} |->
        to_dict(results[CHOOSE i \in DOMAIN results :
                           /\ results[i].skill_name = n
                           /\ \A j \in 1..(i - 1) : results[j].skill_name # n])]

\* Line 265: a dict comprehension, where a later result replaces an earlier
\* one of the same name.
RECURSIVE ResultsByName(_)
ResultsByName(results) ==
    IF results = <<>> THEN EmptyMap
    ELSE LET n == Len(results) IN
         MapSet(ResultsByName(SubSeq(results, 1, n - 1)),
                results[n].skill_name, to_dict(results[n]))

\* Faulty variant: skills_succeeded counts every execution.
Summary_CountAll(results, failed_names) ==
    [results |-> ResultsByName(results),
     failed |-> failed_names,
     skills_executed |-> Len(results),
     skills_succeeded |-> Len(results),
     requires_user_input |->
         SkillNamesOf(SelectSeq(results, LAMBDA r : r.requires_user_input))]

\* Faulty variant: skills_succeeded counts the names that succeeded.
Summary_SucceededNames(results, failed_names) ==
    [results |-> ResultsByName(results),
     failed |-> failed_names,
     skills_executed |-> Len(results),
     skills_succeeded |->
         Cardinality({results[i].skill_name :
                         i \in {j \in DOMAIN results : results[j].success}}),
     requires_user_input |->
         SkillNamesOf(SelectSeq(results, LAMBDA r : r.requires_user_input))]

\* Lines 264-273.
Summary(results, failed_names) ==
    [results |-> ResultsByName(results),
     failed |-> failed_names,
     skills_executed |-> Len(results),
     skills_succeeded |-> Len(SelectSeq(results, LAMBDA r : r.success)),
     requires_user_input |->
         SkillNamesOf(SelectSeq(results, LAMBDA r : r.requires_user_input))]

\* _log_pipeline
log_pipeline(log, summary) ==
    IF log_ok THEN Append(log, LogEntry("pipeline_run", summary)) ELSE log

\* Lines 262-276: the pipeline has no further step.
PipelineFinish ==
    /\ pc = "pipeline"
    /\ step_index > Len(call.pipeline)
    /\ pc' = "done"
    /\ ret' = [summary |-> Summary(all_results, failed)]
    /\ pipeline_log' = log_pipeline(pipeline_log, Summary(all_results, failed))
    /\ UNCHANGED <<config, caller_context, heap, call, tasks, pipe, exec_log,
                   notified>>

Next ==
    \/ \E n \in SkillNames : register_handler(n)
    \/ \E cb \in {"ok", "raises"} : set_notify_callback(cb)
    \/ \E n \in SkillNames, ctx \in CallerContexts :
           execute(n, ctx)
    \/ HandlerDone(HandlerOutcomes)

Spec == Init /\ [][Next]_vars

NextPipeline ==
    \/ \E ns \in Seqs(SkillNames, MaxSkills), ctx \in CallerContexts :
           execute_parallel(ns, ctx)
    \/ \E ctx \in PipelineContexts : execute_pipeline(ctx)
    \/ TaskStart
    \/ HandlerDone(PipelineOutcomes)
    \/ ParallelReturn
    \/ GatherRaise
    \/ StepParallel
    \/ StepSequential
    \/ StepSkip
    \/ SeqNext
    \/ StepJoin
    \/ SeqEnd
    \/ PipelineFinish

SpecPipeline == InitPipeline /\ [][NextPipeline]_vars

\* What execute_parallel and execute_pipeline do themselves between two
\* awaits.
EngineStep ==
    \/ ParallelReturn
    \/ GatherRaise
    \/ StepParallel
    \/ StepSequential
    \/ StepSkip
    \/ SeqNext
    \/ StepJoin
    \/ SeqEnd
    \/ PipelineFinish

\* The event loop runs every task that is ready, every awaited handler
\* returns or raises, and a coroutine that can go on does go on.
SpecPipelineFair ==
    /\ SpecPipeline
    /\ WF_vars(TaskStart)
    /\ WF_vars(HandlerDone(PipelineOutcomes))
    /\ WF_vars(EngineStep)

\* What a handler may write at the top level of the context it was given:
\* the handler of the i-th execute call adds a key of its own, or replaces the
\* value under "since" by one of its own.
AddedKeys == <<"w1", "w2", "w3", "w4", "w5", "w6">>

ReplacedSince == <<"since=1", "since=2", "since=3", "since=4", "since=5", "since=6">>

WrittenBy(i) == {AddedKeys[i], ReplacedSince[i]}

\* context[key] = value by handler i on the dict ctx.
WriteKey(ctx, i, kind) ==
    IF kind = "add"
    THEN [ctx EXCEPT !.keys = @ \cup {AddedKeys[i]}]
    ELSE [ctx EXCEPT !.keys =
             (@ \ ({"since"} \cup {ReplacedSince[k] : k \in DOMAIN ReplacedSince}))
                 \cup {ReplacedSince[i]}]

\* A running handler writes once to its context; the write shows wherever the
\* same dict object is held.
HandlerWrite ==
    \E i \in DOMAIN tasks, kind \in {"add", "replace"} :
        /\ tasks[i].status = "running"
        /\ WrittenBy(i) \cap tasks[i].ctx.keys = {}
        /\ LET Put(ctx) == IF ctx.id = tasks[i].ctx.id
                           THEN WriteKey(ctx, i, kind) ELSE ctx
           IN /\ tasks' = [j \in DOMAIN tasks |-> [tasks[j] EXCEPT !.ctx = Put(@)]]
              /\ running_context' = Put(running_context)
              /\ caller_context' = Put(caller_context)
        /\ UNCHANGED <<config, heap, pc, call, step_index, step_results,
                       all_results, failed, step_start, exec_log, pipeline_log,
                       notified, ret>>

\* The handlers of this specification all return the same well-formed value.
ContextOutcomes ==
    {Returned([confidence |-> Num(90), errors |-> Missing, data |-> DictOfSize(1)])}

NextContext ==
    \/ \E ns \in Seqs(SkillNames, MaxSkills), ctx \in PipelineContexts :
           execute_parallel(ns, ctx)
    \/ \E ctx \in PipelineContexts : execute_pipeline(ctx)
    \/ TaskStart
    \/ HandlerWrite
    \/ HandlerDone(ContextOutcomes)
    \/ ParallelReturn
    \/ StepParallel
    \/ StepSequential
    \/ SeqNext
    \/ StepJoin
    \/ SeqEnd
    \/ PipelineFinish

SpecContext == InitPipeline /\ [][NextContext]_vars

\* The three calls, each made with a context of the caller's that has no
\* prior_results or has a mapping of the caller's own.
NextFrame ==
    \/ \E n \in SkillNames, ctx \in CallerContexts : execute(n, ctx)
    \/ \E ns \in Seqs(SkillNames, MaxSkills), ctx \in CallerContexts :
           execute_parallel(ns, ctx)
    \/ \E ctx \in CallerContexts : execute_pipeline(ctx)
    \/ TaskStart
    \/ HandlerDone(ContextOutcomes)
    \/ ParallelReturn
    \/ StepParallel
    \/ StepSequential
    \/ SeqNext
    \/ StepJoin
    \/ SeqEnd
    \/ PipelineFinish

SpecFrame == InitPipeline /\ [][NextFrame]_vars

\* The same executor with a log directory that cannot be written: every write
\* of a log entry fails with OSError.
InitLogFailure ==
    /\ ProjectScanned(Num(50))
    /\ handlers = {"a", "m"}
    /\ notify_callback = "ok"
    /\ log_ok = FALSE
    /\ caller_context = Context({}, "absent")
    /\ heap = CallerHeap(Context({}, "absent"))
    /\ pc = "idle"
    /\ call = [kind |-> "none"]
    /\ tasks = <<>>
    /\ running_context = Context({}, "absent")
    /\ step_start = Context({}, "absent")
    /\ step_index = 0
    /\ step_results = <<>>
    /\ all_results = <<>>
    /\ failed = <<>>
    /\ exec_log = <<>>
    /\ pipeline_log = <<>>
    /\ notified = <<>>
    /\ ret = None
    /\ GraphCreated

NextLogFailure ==
    \/ \E n \in SkillNames, ctx \in PipelineContexts : execute(n, ctx)
    \/ \E ctx \in PipelineContexts : execute_pipeline(ctx)
    \/ TaskStart
    \/ HandlerDone(PipelineOutcomes)
    \/ GatherRaise
    \/ StepParallel
    \/ StepSequential
    \/ StepSkip
    \/ SeqNext
    \/ StepJoin
    \/ SeqEnd
    \/ PipelineFinish

SpecLogFailure == InitLogFailure /\ [][NextLogFailure]_vars

----------------------------------------------------------------------------
(* registry.py: SkillRegistry.scan *)

MaxFiles == 2

DirNames == <<"d1", "d2", "d3", "d4">>

\* The definition files of the scanned directories: well-formed ones, and one
\* for each defect the code tells apart.
DefinitionFiles ==
    {File(WellFormed("x")), File(WellFormed("y")), File(WellFormed("42")),
     Unreadable, Garbled, EmptyBlock,
     File(Tail(WellFormed("x"))),
     File(<<Line("name", Scalar("x")), Line("version", Scalar("1.0.0"))>>),
     File(Append(WellFormed("y"), Line("tags", Scalar("nlp")))),
     File(Append(WellFormed("x"), Line("trigger", Scalar("stale")))),
     File(Append(WellFormed("x"), Line("confidence_threshold", Scalar("1.5")))),
     File(Append(WellFormed("y"), Line("confidence_threshold", Scalar("high"))))}

\* What a subdirectory can be: without a SKILL.md, or with one of the files.
Subdirectories(path) ==
    {NoSkillMd(path)} \cup {Entry(path, f) : f \in DefinitionFiles}

\* The directories a scan can find after the last one: the same contents, the
\* directory removed or created, or one subdirectory created, rewritten, or
\* (the last one) removed.
Edits(dir) ==
    IF ~dir.is_dir THEN {NoDirectory, Directory(<<>>)}
    ELSE LET entries == dir.entries IN
         {dir, NoDirectory}
         \cup UNION {{Directory([entries EXCEPT ![i] = e]) :
                          e \in Subdirectories(DirNames[i])} : i \in DOMAIN entries}
         \cup (IF Len(entries) < MaxFiles
               THEN {Directory(Append(entries, e)) :
                        e \in Subdirectories(DirNames[Len(entries) + 1])}
               ELSE {})
         \cup (IF Len(entries) > 0
               THEN {Directory(SubSeq(entries, 1, Len(entries) - 1))}
               ELSE {})

EmptySkills == [n \in {} |-> None]

\* A registry after construction: nothing scanned yet.
InitRegistry ==
    /\ registry = EmptySkills
    /\ skills_dir = NoDirectory
    /\ strict \in BOOLEAN
    /\ validation_warnings = <<>>
    /\ scan_ret = None
    /\ scan_start = FALSE
    /\ query_call = None
    /\ query_ret = None
    /\ handlers = {}
    /\ notify_callback = "none"
    /\ log_ok = TRUE
    /\ caller_context = Context({}, "absent")
    /\ heap = CallerHeap(Context({}, "absent"))
    /\ pc = "idle"
    /\ call = [kind |-> "none"]
    /\ tasks = <<>>
    /\ running_context = Context({}, "absent")
    /\ step_start = Context({}, "absent")
    /\ step_index = 0
    /\ step_results = <<>>
    /\ all_results = <<>>
    /\ failed = <<>>
    /\ exec_log = <<>>
    /\ pipeline_log = <<>>
    /\ notified = <<>>
    /\ ret = None
    /\ GraphCreated

\* What scan does to the registry, starting from the given _skills and
\* _validation_warnings, on the directory as it is at the call.
ScanOver(skills, warnings, dir) ==
    LET r == IF dir.is_dir THEN ScanFrom(skills, warnings, dir.entries, 1, strict)
             ELSE Scanned(skills, warnings, None)
    IN  /\ skills_dir' = dir
        /\ scan_start' = (registry # EmptySkills \/ validation_warnings # <<>>)
        /\ registry' = r.skills
        /\ validation_warnings' = r.warnings
        /\ scan_ret' = IF r.exc # None THEN [exc |-> r.exc]
                       ELSE IF skills_sorted(r.skills).exc # None
                       THEN [exc |-> skills_sorted(r.skills).exc]
                       ELSE [skills |-> skills_sorted(r.skills).value]
        /\ UNCHANGED <<strict, query_call, query_ret, graph, handlers,
                       notify_callback,
                       log_ok, caller_context, heap, pc, call, tasks, pipe,
                       exec_log, pipeline_log, notified, ret>>

\* Faulty variant: the previous scan's state is not cleared.
scan_NoClear(dir) == ScanOver(registry, validation_warnings, dir)

\* scan: lines 258-259 clear both collections, then the directory is walked.
scan(dir) == ScanOver(EmptySkills, <<>>, dir)

NextRegistry == \E dir \in Edits(skills_dir) : scan(dir)

SpecRegistry == InitRegistry /\ [][NextRegistry]_vars

----------------------------------------------------------------------------
(* registry.py: queries on a scanned registry *)

\* Tags of the list syntax.
Tagged(name, tags) == Append(WellFormed(name), Line("tags", Items(tags)))

\* Definition files with tags: lists whose first, second or no tag maps to a
\* group, names of the name table, a text and a number where the list should
\* be.
TaggedFiles ==
    {File(Tagged("x", <<"fetch", "nlp">>)),
     File(Tagged("y", <<"nlp">>)),
     File(Tagged("y", <<"misc", "analysis", "fetch">>)),
     File(Tagged("x", <<"misc">>)),
     File(Tagged("fetch-jira", <<"mining", "nlp">>)),
     File(WellFormed("stale-detection")),
     File(Append(WellFormed("x"), Line("tags", Scalar("nlp")))),
     File(Append(WellFormed("y"), Line("tags", Scalar("42"))))}

TaggedDirectories ==
    UNION {{Directory([i \in 1..n |-> Entry(DirNames[i], f[i])]) :
               f \in [1..n -> TaggedFiles]} : n \in 0..MaxFiles}

\* The tags of the queries, and the lists of them.
QueryTags == {"fetch", "nlp"}

MaxTags == 2

\* A non-strict registry that has scanned a directory of tagged files.
InitQuery ==
    /\ \E dir \in TaggedDirectories :
          LET r == ScanFrom(EmptySkills, <<>>, dir.entries, 1, FALSE) IN
          /\ skills_dir = dir
          /\ registry = r.skills
          /\ validation_warnings = r.warnings
          /\ scan_ret = [skills |-> skills_sorted(r.skills).value]
    /\ strict = FALSE
    /\ scan_start = FALSE
    /\ query_call = None
    /\ query_ret = None
    /\ handlers = {}
    /\ notify_callback = "none"
    /\ log_ok = TRUE
    /\ caller_context = Context({}, "absent")
    /\ heap = CallerHeap(Context({}, "absent"))
    /\ pc = "idle"
    /\ call = [kind |-> "none"]
    /\ tasks = <<>>
    /\ running_context = Context({}, "absent")
    /\ step_start = Context({}, "absent")
    /\ step_index = 0
    /\ step_results = <<>>
    /\ all_results = <<>>
    /\ failed = <<>>
    /\ exec_log = <<>>
    /\ pipeline_log = <<>>
    /\ notified = <<>>
    /\ ret = None
    /\ GraphCreated

\* A query reads the registry and changes nothing.
Query(q, r) ==
    /\ query_call' = q
    /\ query_ret' = IF r.exc # None THEN [exc |-> r.exc] ELSE [value |-> r.value]
    /\ UNCHANGED <<registry, skills_dir, strict, validation_warnings, scan_ret,
                   scan_start, graph, handlers, notify_callback, log_ok,
                   caller_context,
                   heap, pc, call, tasks, pipe, exec_log, pipeline_log, notified,
                   ret>>

filter_by_tags(tags, match_all) ==
    Query([op |-> "filter_by_tags", tags |-> tags, match_all |-> match_all],
          FilterByTags(registry, tags, match_all))

get_parallel_groups ==
    Query([op |-> "get_parallel_groups", tags |-> <<>>, match_all |-> FALSE],
          ParallelGroups(registry))

NextQuery ==
    \/ \E tags \in Seqs(QueryTags, MaxTags), match_all \in BOOLEAN :
          filter_by_tags(tags, match_all)
    \/ get_parallel_groups

SpecQuery == InitQuery /\ [][NextQuery]_vars

----------------------------------------------------------------------------
(* graph/store.py: GraphStore *)

\* json.dumps(data, default=str): the text of a dict, item by item; a value
\* json.dumps cannot serialise itself (a datetime) is written as its text.
json_dumps(data) ==
    LET value(v) == IF "datetime" \in DOMAIN v THEN Text(v.datetime) ELSE v IN
    [json |-> [i \in DOMAIN data.dict |->
                  [k |-> data.dict[i].k, v |-> value(data.dict[i].v)]]]

\* The node dict of a row, with json.loads of its data.
row_to_node(row) ==
    [id |-> row.id, type |-> row.type, data |-> Dict(row.data.json),
     created_at |-> row.created_at, updated_at |-> row.updated_at]

\* SELECT * FROM nodes WHERE id = ?, fetchone, then the node dict or None.
GetNode(rows, node_id) ==
    IF \E row \in rows : row.id = node_id
    THEN row_to_node(CHOOSE row \in rows : row.id = node_id)
    ELSE None

\* Faulty variant: the edges that point at the node are kept.
DeleteEdges_SourceOnly(rows, node_id) == {row \in rows : row.source # node_id}

\* DELETE FROM edges WHERE source = ? OR target = ?
DeleteEdges(rows, node_id) ==
    {row \in rows : ~(row.source = node_id \/ row.target = node_id)}

\* The bound on the clock: the number of timestamps taken.
MaxClock == 4

NodeIds == {"n1", "n2"}

upsert_node(node_id, node_type, data) ==
    LET existing == \E row \in nodes : row.id = node_id
        data_json == json_dumps(data)
    IN  /\ now < MaxClock
        /\ now' = now + 1
        /\ store_call' = [op |-> "upsert_node",
                          args |-> <<node_id, node_type, data>>]
        /\ store_before' = [nodes |-> nodes, edges |-> edges]
        /\ IF ~existing
           THEN /\ nodes' = nodes \cup
                      {[id |-> node_id, type |-> node_type, data |-> data_json,
                        created_at |-> now', updated_at |-> now']}
                /\ store_ret' = Flag(TRUE)
           ELSE /\ nodes' =
                      {IF row.id = node_id
                       THEN [row EXCEPT !.type = node_type, !.data = data_json,
                                        !.updated_at = now']
                       ELSE row : row \in nodes}
                /\ store_ret' = Flag(FALSE)
        /\ UNCHANGED <<registry, discovery, handlers, notify_callback, log_ok,
                       edges, caller_context, heap, pc, call,
                       tasks, pipe, exec_log, pipeline_log, notified, ret>>

get_node(node_id) ==
    /\ store_call' = [op |-> "get_node", args |-> <<node_id>>]
    /\ store_before' = [nodes |-> nodes, edges |-> edges]
    /\ store_ret' = GetNode(nodes, node_id)
    /\ UNCHANGED <<registry, discovery, handlers, notify_callback, log_ok,
                   nodes, edges, now, caller_context, heap, pc, call,
                   tasks, pipe, exec_log, pipeline_log, notified, ret>>

delete_node(node_id) ==
    /\ store_call' = [op |-> "delete_node", args |-> <<node_id>>]
    /\ store_before' = [nodes |-> nodes, edges |-> edges]
    /\ nodes' = {row \in nodes : row.id # node_id}
    /\ edges' = DeleteEdges(edges, node_id)
    /\ store_ret' = None
    /\ UNCHANGED <<registry, discovery, handlers, notify_callback, log_ok,
                   now, caller_context, heap, pc, call,
                   tasks, pipe, exec_log, pipeline_log, notified, ret>>

\* INSERT OR REPLACE: a row with the same (source, target, rel_type) is
\* dropped first.
upsert_edge(source, target, rel_type, data, confidence) ==
    LET data_json == json_dumps(IF data = None THEN Dict(<<>>) ELSE data) IN
    /\ now < MaxClock
    /\ now' = now + 1
    /\ store_call' = [op |-> "upsert_edge",
                      args |-> <<source, target, rel_type, data, confidence>>]
    /\ store_before' = [nodes |-> nodes, edges |-> edges]
    /\ edges' = {row \in edges : ~(/\ row.source = source
                                    /\ row.target = target
                                    /\ row.rel_type = rel_type)}
                \cup {[source |-> source, target |-> target,
                       rel_type |-> rel_type, data |-> data_json,
                       confidence |-> confidence, created_at |-> now']}
    /\ store_ret' = None
    /\ UNCHANGED <<registry, discovery, handlers, notify_callback, log_ok,
                   nodes, caller_context, heap, pc, call,
                   tasks, pipe, exec_log, pipeline_log, notified, ret>>

NextGraph ==
    \/ \E node_id \in NodeIds, node_type \in {"message", "contact"} :
          upsert_node(node_id, node_type,
                      Dict(<<[k |-> "sent", v |-> [datetime |-> "2026-01-01"]]>>))
    \/ \E source \in NodeIds, target \in NodeIds,
          data \in {None, Dict(<<[k |-> "via", v |-> Text("v")]>>)} :
          upsert_edge(source, target, "mentions", data, Num(100))
    \/ \E node_id \in NodeIds : delete_node(node_id)
    \/ \E node_id \in NodeIds : get_node(node_id)

\* A graph store on a new database, beside an executor that is not called.
SpecGraph == InitPipeline /\ [][NextGraph]_vars

----------------------------------------------------------------------------
(* Claims on a single execute call (specification Spec) *)

\* C1: every result execute returns is routed by its confidence c: c >= 0.8
\* gives an auto-executable result without requires_user_input and without
\* user_prompt; 0.5 <= c < 0.8 gives needs_notification without
\* requires_user_input; c < 0.5 gives requires_user_input with a user_prompt.
\* 0.5 and 0.8 belong to the upper band, and requires_user_input is set
\* exactly when user_prompt is.
C1_RoutingBands ==
    \A i \in DOMAIN tasks :
        tasks[i].status = "done" =>
            LET r == tasks[i].result
                c == r.confidence
            IN /\ (IsNum(c) /\ c.i >= 80) =>
                      /\ is_auto_executable(r)
                      /\ ~r.requires_user_input
                      /\ r.user_prompt = None
               /\ (IsNum(c) /\ 50 <= c.i /\ c.i < 80) =>
                      /\ needs_notification(r)
                      /\ ~is_auto_executable(r)
                      /\ ~r.requires_user_input
               /\ (IsNum(c) /\ c.i < 50) =>
                      /\ r.requires_user_input
                      /\ r.user_prompt # None
                      /\ ~needs_notification(r)
               /\ r.requires_user_input <=> (r.user_prompt # None)

\* A handler returned exactly 0.5 and the result landed in the notify band.
C1_Witness ==
    /\ pc = "done"
    /\ call.kind = "execute"
    /\ tasks[1].invoked
    /\ tasks[1].result.confidence = Num(50)
    /\ ~tasks[1].result.requires_user_input

\* C2: no call to execute raises to its caller, whatever the handler does.
C2_NeverRaises == pc # "raised"

\* C3: when the handler of a registered skill raises T(m), execute returns a
\* result with success false, confidence 0.0, the single error "T: m" and
\* requires_user_input true, and the execution log has got its one entry
\* (when the log can be written), which carries that result.
C3_HandlerException ==
    \A i \in DOMAIN tasks :
        LET t == tasks[i] IN
        (t.status # "running" /\ t.outcome # None /\ t.outcome.raised) =>
            /\ t.status = "done"
            /\ ~t.result.success
            /\ t.result.confidence = Num(0)
            /\ t.result.errors = <<t.outcome.type \o ": " \o t.outcome.msg>>
            /\ t.result.requires_user_input
            /\ t.result.user_prompt # None
            /\ call.kind = "execute" =>
                  /\ pc = "done"
                  /\ ret = [result |-> t.result]
                  /\ log_ok => exec_log = <<LogEntry("skill_execution", to_dict(t.result))>>

\* The handler of "a" raised KeyError('k') and execute returned.
C3_Witness ==
    /\ pc = "done"
    /\ call.kind = "execute"
    /\ tasks[1].outcome = Raised("KeyError", "'k'")
    /\ tasks[1].result.errors = <<"KeyError: 'k'">>
    /\ Len(exec_log) = 1

\* C4: execute on a name absent from the registry returns a result with
\* success false, confidence 0.0, requires_user_input true and a prompt that
\* offers retry / skip / abort; it appends one execution-log entry, invokes
\* no handler (registered or not) and no notification callback, and does not
\* raise.
C4_MissingSkill ==
    \A i \in DOMAIN tasks :
        LET t == tasks[i] IN
        (t.status # "created" /\ t.name \notin DOMAIN registry) =>
            /\ t.status = "done"
            /\ ~t.invoked
            /\ t.outcome = None
            /\ ~t.result.success
            /\ t.result.confidence = Num(0)
            /\ t.result.requires_user_input
            /\ t.result.user_prompt # None
            /\ [k \in 1..3 |-> t.result.user_prompt.options[k].label]
                   = <<"Retry", "Skip this skill", "Abort pipeline">>
            /\ Len(t.result.user_prompt.options) = 3
            /\ call.kind = "execute" =>
                  /\ pc = "done"
                  /\ ret = [result |-> t.result]
                  /\ notified = <<>>
                  /\ log_ok => exec_log = <<LogEntry("skill_execution", to_dict(t.result))>>

\* execute("m") ran with a handler registered for "m" and a callback set.
C4_Witness ==
    /\ pc = "done"
    /\ call.kind = "execute"
    /\ tasks[1].name = "m"
    /\ "m" \in handlers
    /\ notify_callback # "none"
    /\ Len(exec_log) = 1

\* C5: execute on a registered name without a handler runs the default
\* handler and does not raise: the result has confidence 0.0, exactly one
\* error, success false and requires_user_input true with a user_prompt.
C5_DefaultHandler ==
    \A i \in DOMAIN tasks :
        LET t == tasks[i] IN
        (t.status # "created" /\ t.name \in DOMAIN registry /\ t.name \notin handlers) =>
            /\ t.status = "done"
            /\ t.invoked
            /\ t.result.confidence = Num(0)
            /\ Len(t.result.errors) = 1
            /\ ~t.result.success
            /\ t.result.requires_user_input
            /\ t.result.user_prompt # None
            /\ call.kind = "execute" => pc = "done" /\ ret = [result |-> t.result]

\* execute("b") ran with no handler registered for "b".
C5_Witness ==
    /\ pc = "done"
    /\ call.kind = "execute"
    /\ tasks[1].name = "b"
    /\ "b" \notin handlers
    /\ tasks[1].invoked

\* The confidence lies in the notify band [0.5, 0.8).
InNotifyBand(c) == IsNum(c) /\ THRESHOLD_NOTIFY <= c.i /\ c.i < THRESHOLD_AUTO

\* C17: with a notification callback set, an execute call that returns a
\* result with a confidence in [0.5, 0.8) has invoked the callback exactly
\* once, with that result, and a call with any other end (auto band, pause
\* band, handler exception, default handler, missing skill) has not invoked
\* it; at the invocation the result is the routed one and, the log being
\* writable, its entry is the last line of the execution log.
C17_NotifyOnceInBand ==
    (call.kind = "execute" /\ notify_callback # "none") =>
        /\ (pc = "done" /\ InNotifyBand(tasks[1].result.confidence)) =>
               /\ Len(notified) = 1
               /\ notified[1].result = ret.result
               /\ ~notified[1].result.requires_user_input
               /\ log_ok =>
                      /\ notified[1].log_len = 1
                      /\ exec_log[1].body = to_dict(notified[1].result)
        /\ ~(pc = "done" /\ InNotifyBand(tasks[1].result.confidence)) =>
               notified = <<>>

\* A handler returned 0.79 without errors and the callback got the result.
C17_Witness ==
    /\ call.kind = "execute"
    /\ pc = "done"
    /\ notify_callback = "ok"
    /\ log_ok
    /\ tasks[1].outcome =
           Returned([confidence |-> Num(79), errors |-> Missing, data |-> Dict(<<>>)])
    /\ Len(notified) = 1
    /\ notified[1].result.success

\* The handler's return value keeps the handler contract: a dict whose
\* confidence, if any, is a float and whose errors, if any, is a list.
Conforming(raw) ==
    /\ raw # None
    /\ "s" \notin DOMAIN raw.confidence
    /\ raw.errors # None

\* C20: for every conforming return of a handler, the result execute returns
\* has success true exactly when the returned errors are empty (none returned
\* counting as empty), whatever the confidence, and has the confidence the
\* handler returned; requires_user_input follows the confidence alone.
C20_SuccessIffNoErrors ==
    \A i \in DOMAIN tasks :
        LET t == tasks[i] IN
        (t.status = "done" /\ t.name \in handlers /\ t.invoked
            /\ ~t.outcome.raised /\ Conforming(t.outcome.value)) =>
            LET raw == t.outcome.value IN
            /\ t.result.success <=> (raw.errors = Missing \/ raw.errors = [l |-> <<>>])
            /\ raw.errors # Missing => t.result.errors = raw.errors.l
            /\ raw.confidence # Missing => t.result.confidence = raw.confidence
            /\ t.result.requires_user_input <=> Lt(t.result.confidence, THRESHOLD_NOTIFY)

\* C20 as stated, for every dict a handler returns, conforming or not: success
\* is true exactly when the returned errors are empty, and the confidence is
\* the returned one.
C20_EveryReturn ==
    \A i \in DOMAIN tasks :
        LET t == tasks[i] IN
        (t.status = "done" /\ t.name \in handlers /\ t.invoked
            /\ ~t.outcome.raised /\ t.outcome.value # None) =>
            LET raw == t.outcome.value IN
            /\ t.result.success <=> (raw.errors = Missing \/ raw.errors = [l |-> <<>>])
            /\ raw.confidence # Missing => t.result.confidence = raw.confidence

\* A handler returned confidence 0.49 without errors: the result succeeded
\* and requires user input.
C20_Witness ==
    /\ call.kind = "execute"
    /\ pc = "done"
    /\ tasks[1].outcome =
           Returned([confidence |-> Num(49), errors |-> [l |-> <<>>], data |-> Dict(<<>>)])
    /\ tasks[1].result.success
    /\ tasks[1].result.confidence = Num(49)
    /\ tasks[1].result.requires_user_input

\* C22: routing reads the result's confidence and the fixed thresholds, not
\* the descriptor: an execute call under a descriptor with any
\* confidence_threshold ends as the same call under the default descriptor
\* does, with the same result (success, requires_user_input, user_prompt) and
\* the same invocation of the notification callback.
C22_RoutingIgnoresDescriptor ==
    \A i \in DOMAIN tasks :
        LET t == tasks[i] IN
        (call.kind = "execute" /\ t.status \in {"done", "raised"} /\ t.invoked) =>
            LET other == apply_routing(WrapOutcome(t.name, t.outcome),
                                       Registered(Num(THRESHOLD_NOTIFY))[t.name])
            IN IF other.raised
               THEN t.status = "raised" /\ notified = <<>>
               ELSE /\ t.status = "done"
                    /\ t.result.success = other.value.success
                    /\ t.result.requires_user_input = other.value.requires_user_input
                    /\ t.result.user_prompt = other.value.user_prompt
                    /\ (notified # <<>>) <=> Notifies(other.value)

\* Under a descriptor with confidence_threshold 0.9 a handler returned 0.8:
\* the result is auto-executable, without requires_user_input.
C22_Witness ==
    /\ call.kind = "execute"
    /\ pc = "done"
    /\ tasks[1].invoked
    /\ registry[tasks[1].name].confidence_threshold = Num(90)
    /\ tasks[1].result.confidence = Num(80)
    /\ ~tasks[1].result.requires_user_input
    /\ tasks[1].result.user_prompt = None

----------------------------------------------------------------------------
(* Claims on execute_parallel and execute_pipeline (specification          *)
(* SpecPipeline)                                                           *)

Completed(t) == t.status \in {"done", "raised"}

\* The i-th of `results` is the result of the i-th task of `group`, under the
\* i-th of `names`.
Positional(results, group, names) ==
    /\ Len(results) = Len(names)
    /\ \A k \in DOMAIN names :
          /\ results[k].skill_name = names[k]
          /\ results[k] = group[k].result

\* C6: for every list of names, repeated names included, and every completion
\* order of the tasks, the list execute_parallel returns has the length of
\* the input, and its i-th result is the i-th task's, under the i-th name.
\* The same holds for the results a parallel pipeline step gets.
C6_ParallelOrder ==
    /\ (call.kind = "parallel" /\ pc = "done") =>
           Positional(ret.results, GroupOf(0), call.skill_names)
    /\ (call.kind = "pipeline" /\ pc = "pipeline" /\ step_index > 1
            /\ call.pipeline[step_index - 1].tag = "parallel") =>
           Positional(step_results, GroupOf(step_index - 1),
                      call.pipeline[step_index - 1].names)

\* execute_parallel(["a", "a"]) returned after the second task had completed
\* first, with a different result.
C6_Witness ==
    /\ call.kind = "parallel"
    /\ pc = "done"
    /\ call.skill_names = <<"a", "a">>
    /\ exec_log[1].body = ret.results[2]
    /\ ret.results[1] # ret.results[2]

\* C7: no handler of a later pipeline step is started before every task of
\* every earlier step has completed (returned or raised).
C7_StepBarrier ==
    \A i, j \in DOMAIN tasks :
        (tasks[j].step > tasks[i].step /\ tasks[j].invoked) => Completed(tasks[i])

\* A parallel step of two tasks completed in the reverse of its input order
\* and a handler of the next step has been started.
C7_Witness ==
    /\ call.kind = "pipeline"
    /\ Len(tasks) = 3
    /\ call.pipeline[1] = [tag |-> "parallel", names |-> <<"a", "a">>]
    /\ exec_log[1].body = tasks[2].result
    /\ tasks[1].result # tasks[2].result
    /\ tasks[3].step = 2
    /\ tasks[3].invoked

\* C8: in a sequential step the handlers are invoked in list order, one at a
\* time: the execute call for a position is not made before the call for
\* every earlier position has returned or raised.
C8_SequentialSerial ==
    \A i, j \in DOMAIN tasks :
        LET t == tasks[i]
            u == tasks[j]
        IN (t.step >= 1 /\ call.pipeline[t.step].tag = "sequential") =>
               /\ t.status # "created"
               /\ t.name = call.pipeline[t.step].names[t.pos]
               /\ (u.step = t.step /\ i < j) => u.pos = t.pos + (j - i)
               /\ (u.step = t.step /\ u.pos > t.pos) => Completed(t)
               /\ (u.step = t.step /\ i # j) => ~(t.status = "running" /\ u.status = "running")

\* In the sequential step ["a", "a"] the second handler runs after the first
\* has returned.
C8_Witness ==
    /\ pc = "pipeline_sequential"
    /\ CurrentStep.names = <<"a", "a">>
    /\ Len(tasks) = 2
    /\ tasks[1].status = "done"
    /\ tasks[2].status = "running"

\* The names of a sequence are pairwise distinct.
Distinct(names) == \A k, l \in DOMAIN names : k # l => names[k] # names[l]

\* C9: in a sequential step with distinct names, begun on a running context
\* without a prior_results entry, the context a handler is invoked with shows
\* under prior_results exactly the names at the earlier positions of the step
\* (none at all for the first handler).
C9_SequentialSiblings ==
    (pc = "pipeline_sequential" /\ step_start.pr = "absent"
        /\ Distinct(CurrentStep.names)) =>
        \A i \in DOMAIN tasks :
            (tasks[i].step = step_index /\ tasks[i].invoked) =>
                tasks[i].seen = {CurrentStep.names[k] : k \in 1..(tasks[i].pos - 1)}

\* In the step ["a", "b"] the handler at position 2 saw "a" and not "b".
C9_Witness ==
    /\ pc = "pipeline_sequential"
    /\ step_start.pr = "absent"
    /\ CurrentStep.names = <<"a", "b">>
    /\ \E i \in DOMAIN tasks :
          /\ tasks[i].step = step_index
          /\ tasks[i].pos = 2
          /\ tasks[i].invoked
          /\ tasks[i].seen = {"a"}

\* C10: when a step starts, prior_results of the running context holds an
\* entry (a serialized result of that name) for every skill executed in the
\* earlier steps, and every handler of the step is invoked on a context that
\* shows all of them.
C10_PriorResultsOfEarlierSteps ==
    /\ pc \in {"pipeline_parallel", "pipeline_sequential"} =>
          \A i \in DOMAIN tasks :
              tasks[i].step < step_index =>
                  /\ tasks[i].name \in PriorNames(heap, step_start)
                  /\ \E j \in DOMAIN tasks :
                        /\ tasks[j].name = tasks[i].name
                        /\ heap[running_context.pr][tasks[i].name] = to_dict(tasks[j].result)
    /\ \A i, j \in DOMAIN tasks :
          (tasks[j].step > tasks[i].step /\ tasks[j].invoked) =>
              tasks[i].name \in tasks[j].seen

\* After the parallel step ["a", "b"], a handler of step 2 saw both names.
C10_Witness ==
    /\ call.kind = "pipeline"
    /\ Len(tasks) = 3
    /\ call.pipeline[1] = [tag |-> "parallel", names |-> <<"a", "b">>]
    /\ tasks[3].step = 2
    /\ tasks[3].invoked
    /\ tasks[3].seen = {"a", "b"}

\* C11: during a run of execute_pipeline the set of skill names under
\* prior_results of the running context only grows: no step of the run, a
\* failing or a skipped one included, removes a name that was added.
C11_PriorResultsGrow ==
    [][PriorNames(heap, running_context) \subseteq PriorNames(heap', running_context')]_vars

\* "a" was added by a first step, and a second step, skipped, has left it.
C11_Witness ==
    /\ call.kind = "pipeline"
    /\ step_index = 3
    /\ call.pipeline[2].tag = "other"
    /\ "a" \in PriorNames(heap, running_context)
    /\ failed = <<"a">>

\* One execute call was made for position k of step s, and it has returned.
ExecutedOnce(s, k) ==
    /\ Cardinality({i \in DOMAIN tasks : tasks[i].step = s /\ tasks[i].pos = k}) = 1
    /\ \A i \in DOMAIN tasks :
          (tasks[i].step = s /\ tasks[i].pos = k) =>
              /\ tasks[i].name = call.pipeline[s].names[k]
              /\ tasks[i].status = "done"

\* C12: a call of execute_pipeline ends by returning a summary, with every
\* name of every parallel or sequential step executed once per occurrence,
\* whatever failed before it.
C12_NoEarlyAbort ==
    (call.kind = "pipeline" /\ pc \in {"done", "raised"}) =>
        /\ pc = "done"
        /\ "summary" \in DOMAIN ret
        /\ \A s \in DOMAIN call.pipeline :
              \A k \in DOMAIN call.pipeline[s].names : ExecutedOnce(s, k)

\* The set of the elements of a sequence.
Range(seq) == {seq[k] : k \in DOMAIN seq}

\* C13: in the summary execute_pipeline returns, skills_executed is the number
\* of names in all parallel and sequential steps, skills_succeeded the number
\* of those executions whose result has success true, failed holds exactly
\* the names with a result of success false, and requires_user_input exactly
\* the names with a result of requires_user_input true.
C13_SummaryCounts ==
    (call.kind = "pipeline" /\ pc = "done") =>
        LET summary == ret.summary IN
        /\ summary.skills_executed = TotalNames(call.pipeline)
        /\ summary.skills_executed = Len(tasks)
        /\ summary.skills_succeeded =
               Cardinality({i \in DOMAIN tasks : tasks[i].result.success})
        /\ Range(summary.failed) =
               {tasks[i].name : i \in {j \in DOMAIN tasks : ~tasks[j].result.success}}
        /\ Range(summary.requires_user_input) =
               {tasks[i].name :
                   i \in {j \in DOMAIN tasks : tasks[j].result.requires_user_input}}

\* A pipeline of three executions returned: one succeeded, two failed, and
\* only one of the failed requires user input.
C13_Witness ==
    /\ call.kind = "pipeline"
    /\ pc = "done"
    /\ ret.summary.skills_executed = 3
    /\ ret.summary.skills_succeeded = 1
    /\ Len(ret.summary.failed) = 2
    /\ Len(ret.summary.requires_user_input) = 1

\* The fields of a result that its log entry is compared on.
Routed(r) ==
    [skill_name |-> r.skill_name, success |-> r.success,
     confidence |-> r.confidence,
     requires_user_input |-> r.requires_user_input,
     user_prompt |-> r.user_prompt]

\* C14: every execute call that has ended, the calls made for
\* execute_parallel and execute_pipeline and those for a missing skill
\* included, has appended exactly one entry to the execution log, and the
\* entry of a call carries the skill_name, success, confidence,
\* requires_user_input and user_prompt of the result the call returned.
C14_OneLogEntryPerCall ==
    /\ Len(exec_log) = Cardinality({i \in DOMAIN tasks : Completed(tasks[i])})
    /\ \A i \in DOMAIN tasks :
          tasks[i].status = "done" =>
              \E k \in DOMAIN exec_log :
                  /\ exec_log[k].event = "skill_execution"
                  /\ Routed(exec_log[k].body) = Routed(tasks[i].result)

\* C15: a call of execute_pipeline that has ended, an empty pipeline or one
\* of unknown steps only included, has appended exactly one pipeline_run
\* entry to the pipeline log; the entry is none of the execution log, and it
\* is not written before the execution-log entries of the skills of the run.
C15_OnePipelineEntry ==
    call.kind = "pipeline" =>
        /\ pc \in {"done", "raised"} =>
              /\ Len(pipeline_log) = 1
              /\ pipeline_log[1].event = "pipeline_run"
        /\ pc \notin {"done", "raised"} => pipeline_log = <<>>
        /\ \A k \in DOMAIN exec_log : exec_log[k].event = "skill_execution"
        /\ pipeline_log # <<>> =>
              Len(exec_log) = Cardinality({i \in DOMAIN tasks : Completed(tasks[i])})

\* C19: a pipeline step with neither a parallel nor a sequential tag is
\* skipped: reading it makes no execute call, adds nothing to the results, to
\* failed or to prior_results, raises nothing and takes the loop to the next
\* step; no execute call is ever made for it, and every parallel or
\* sequential step the loop has passed after it has had all its names
\* executed.
C19_UnknownStepSkipped ==
    /\ [](call.kind = "pipeline" =>
             \A s \in DOMAIN call.pipeline :
                 call.pipeline[s].tag = "other" =>
                     /\ \A i \in DOMAIN tasks : tasks[i].step # s
                     /\ \A s2 \in DOMAIN call.pipeline :
                           (s2 > s /\ step_index > s2) =>
                               \A k \in DOMAIN call.pipeline[s2].names :
                                   ExecutedOnce(s2, k))
    /\ [][(/\ call.kind = "pipeline"
           /\ call'.kind = "pipeline"
           /\ Len(call'.pipeline) = Len(call.pipeline) + 1
           /\ call'.pipeline[Len(call'.pipeline)].tag = "other") =>
              /\ tasks' = tasks
              /\ all_results' = all_results
              /\ failed' = failed
              /\ heap' = heap
              /\ running_context' = running_context
              /\ exec_log' = exec_log
              /\ pc' = "pipeline"
              /\ step_index' = step_index + 1]_vars

\* After an unknown first step, the sequential step ["a"] ran and the
\* pipeline returned a summary of one execution.
C19_Witness ==
    /\ call.kind = "pipeline"
    /\ pc = "done"
    /\ Len(call.pipeline) = 2
    /\ call.pipeline[1].tag = "other"
    /\ call.pipeline[2] = [tag |-> "sequential", names |-> <<"a">>]
    /\ tasks[1].step = 2
    /\ tasks[1].invoked
    /\ ret.summary.skills_executed = 1

\* C23: nothing times out or is cancelled: as long as a handler of a
\* pipeline step has not returned, the loop is at that step, no execute call
\* of a later step has been made, no summary has been returned or logged,
\* and in a sequential step no call has been made for a name after the one
\* whose handler is awaited.
C23_NoTimeout ==
    \A i \in DOMAIN tasks :
        LET t == tasks[i] IN
        (call.kind = "pipeline" /\ t.status = "running") =>
            /\ step_index = t.step
            /\ Len(call.pipeline) = t.step
            /\ pc \in {"pipeline_parallel", "pipeline_sequential", "raised"}
            /\ pipeline_log = <<>>
            /\ \A j \in DOMAIN tasks :
                  /\ tasks[j].step <= t.step
                  /\ (call.pipeline[t.step].tag = "sequential" /\ tasks[j].step = t.step)
                         => tasks[j].pos <= t.pos

\* The first handler of the parallel step ["a", "a"] has not returned, the
\* second has, and the pipeline is still at that step.
C23_Witness ==
    /\ call.kind = "pipeline"
    /\ pc = "pipeline_parallel"
    /\ CurrentStep.names = <<"a", "a">>
    /\ Len(tasks) = 2
    /\ tasks[1].status = "running"
    /\ tasks[2].status = "done"
    /\ step_index = 1

----------------------------------------------------------------------------
(* Claims on failing log writes (specification SpecLogFailure) *)

\* What an execute call for task t comes to, from the registry and from what
\* its handler did alone: no log and no callback takes part in it.
ExpectedOf(t) ==
    IF t.name \notin DOMAIN registry
    THEN Returned(error_result(t.name, "Skill '" \o t.name \o "' not found in registry"))
    ELSE apply_routing(WrapOutcome(t.name, t.outcome), registry[t.name])

\* C16: when the writes of log entries fail, every execute call ends as it
\* would with a writable log: it returns the result its handler's outcome
\* gives (it raises only where routing raises, never for the write), the
\* callback has been invoked for every returned notify-band result, and
\* execute and execute_pipeline return that result and the summary of those
\* results.
C16_LogFailureHarmless ==
    ~log_ok =>
        /\ \A i \in DOMAIN tasks :
              Completed(tasks[i]) =>
                  LET e == ExpectedOf(tasks[i]) IN
                  IF e.raised
                  THEN /\ tasks[i].status = "raised"
                       /\ tasks[i].exc = [type |-> e.type, msg |-> e.msg]
                  ELSE /\ tasks[i].status = "done"
                       /\ tasks[i].result = e.value
                       /\ needs_notification(e.value) =>
                              \E k \in DOMAIN notified : notified[k].result = e.value
        /\ Len(notified) =
               Cardinality({i \in DOMAIN tasks :
                   tasks[i].status = "done" /\ needs_notification(tasks[i].result)})
        /\ (call.kind = "execute" /\ pc \in {"done", "raised"}) =>
               ret = (IF tasks[1].status = "done" THEN [result |-> tasks[1].result]
                      ELSE [exc |-> tasks[1].exc])
        /\ (call.kind = "pipeline" /\ pc = "done") =>
               ret = [summary |-> Summary(Gather(tasks), FailedNames(Gather(tasks)))]
        /\ pc = "raised" =>
               \E i \in DOMAIN tasks :
                   tasks[i].status = "raised" /\ ret = [exc |-> tasks[i].exc]

\* With no log entry written, a pipeline returned its summary and the
\* callback was invoked for a notify-band result of it.
C16_Witness ==
    /\ ~log_ok
    /\ call.kind = "pipeline"
    /\ pc = "done"
    /\ ret.summary.skills_executed = 2
    /\ exec_log = <<>>
    /\ pipeline_log = <<>>
    /\ \E i \in DOMAIN tasks :
          /\ needs_notification(tasks[i].result)
          /\ Len(notified) = 1
          /\ notified[1].result = tasks[i].result

----------------------------------------------------------------------------
(* Claims on a raising notification callback (specification Spec) *)

\* C18: an execute call whose notification callback was invoked and raised
\* has returned, not raised: it returns the result it returns when the
\* callback succeeds (the one the handler's outcome gives), and when the
\* callback was invoked the call's entry was already in the execution log
\* (the log being writable).
C18_CallbackFailureCaught ==
    (call.kind = "execute" /\ notify_callback = "raises" /\ notified # <<>>) =>
        /\ pc = "done"
        /\ tasks[1].status = "done"
        /\ ~ExpectedOf(tasks[1]).raised
        /\ ret = [result |-> ExpectedOf(tasks[1]).value]
        /\ notified[1].result = ret.result
        /\ log_ok =>
              /\ notified[1].log_len = 1
              /\ exec_log = <<LogEntry("skill_execution", to_dict(ret.result))>>

\* The handler returned 0.5 with an error, the callback raised, and execute
\* returned the failed notify-band result.
C18_Witness ==
    /\ call.kind = "execute"
    /\ notify_callback = "raises"
    /\ pc = "done"
    /\ log_ok
    /\ Len(notified) = 1
    /\ ret.result.confidence = Num(50)
    /\ ~ret.result.success

----------------------------------------------------------------------------
(* Claims on the handlers' contexts (specification SpecContext) *)

\* C21: what a handler writes at the top level of its context (a key it
\* adds, a value it replaces) shows in the context of no other execute call,
\* be it a sibling of the same parallel call or a call of a later pipeline
\* step, nor in the running context of the pipeline, nor in the context
\* object the caller passed in, which stays as it was passed.
C21_ContextCopies ==
    /\ \A i, j \in DOMAIN tasks :
          i # j => WrittenBy(i) \cap tasks[j].ctx.keys = {}
    /\ \A i \in DOMAIN tasks :
          /\ WrittenBy(i) \cap running_context.keys = {}
          /\ WrittenBy(i) \cap caller_context.keys = {}
    /\ call.kind # "none" => caller_context \in PipelineContexts

\* In a pipeline, the first task of a parallel step of two added a key and
\* the second replaced "since"; a handler of the next step runs and shows
\* neither.
C21_Witness ==
    /\ call.kind = "pipeline"
    /\ Len(tasks) = 3
    /\ call.pipeline[1].tag = "parallel"
    /\ "w1" \in tasks[1].ctx.keys
    /\ "since=2" \in tasks[2].ctx.keys
    /\ tasks[3].step = 2
    /\ tasks[3].status = "running"
    /\ tasks[3].ctx.keys = {"since", "graph_store"}

----------------------------------------------------------------------------
(* Claims on SkillRegistry.scan (specification SpecRegistry) *)

ScanReturned == "skills" \in DOMAIN scan_ret

\* What _register_from_file does with one subdirectory's file on its own.
Alone(entry) ==
    register_from_file(EmptySkills, <<>>, entry.path, entry.file, strict)

\* The file reaches the registration at the end of _register_from_file.
Registers(entry) ==
    entry.is_file /\ Alone(entry).exc = None /\ DOMAIN Alone(entry).skills # {}

\* The name the file is registered under.
NameOf(entry) == CHOOSE n \in DOMAIN Alone(entry).skills : TRUE

\* The positions of the scanned directory whose files are registered.
RegisteredFiles ==
    {i \in DOMAIN skills_dir.entries : Registers(skills_dir.entries[i])}

\* C24: after a scan, a name that several registered files declare has one
\* descriptor, the one made from the last of these files in scan order, and
\* the registry holds as many descriptors as the registered files have
\* distinct names.
C24_LastDuplicateWins ==
    ScanReturned =>
        LET entries == skills_dir.entries IN
        /\ \A i \in RegisteredFiles :
              /\ NameOf(entries[i]) \in DOMAIN registry
              /\ \E j \in RegisteredFiles :
                    /\ NameOf(entries[j]) = NameOf(entries[i])
                    /\ \A k \in RegisteredFiles :
                          NameOf(entries[k]) = NameOf(entries[i]) => k <= j
                    /\ registry[NameOf(entries[i])] = Alone(entries[j]).skills[NameOf(entries[i])]
        /\ Cardinality(DOMAIN registry)
               = Cardinality({NameOf(entries[i]) : i \in RegisteredFiles})

\* Two different files declared the same name and the scan returned.
C24_Witness ==
    /\ ScanReturned
    /\ \E i, j \in RegisteredFiles :
          /\ i < j
          /\ NameOf(skills_dir.entries[i]) = NameOf(skills_dir.entries[j])
          /\ skills_dir.entries[i].file # skills_dir.entries[j].file
          /\ registry[NameOf(skills_dir.entries[j])].path = skills_dir.entries[j].path

\* What a newly constructed registry holds after one scan of the directory.
FreshScan(dir) ==
    IF dir.is_dir THEN ScanFrom(EmptySkills, <<>>, dir.entries, 1, strict)
    ELSE Scanned(EmptySkills, <<>>, None)

\* C25: after any sequence of scans the descriptors and validation_warnings
\* are those a new registry gets from one scan of the directory as the last
\* scan found it, nothing more (an empty registry and no warnings when the
\* directory is gone), and a scan of contents that did not change since the
\* previous scan leaves both as they were.
C25_ScanReplacesState ==
    /\ [](scan_ret # None =>
             /\ registry = FreshScan(skills_dir).skills
             /\ validation_warnings = FreshScan(skills_dir).warnings
             /\ ~skills_dir.is_dir =>
                    registry = EmptySkills /\ validation_warnings = <<>>)
    /\ [][(scan_ret # None /\ skills_dir' = skills_dir) =>
              /\ registry' = registry
              /\ validation_warnings' = validation_warnings
              /\ scan_ret' = scan_ret]_vars

\* A scan that began with descriptors or warnings of an earlier scan found
\* the directory gone and left nothing.
C25_Witness ==
    /\ scan_start
    /\ scan_ret = [skills |-> <<>>]
    /\ ~skills_dir.is_dir
    /\ registry = EmptySkills
    /\ validation_warnings = <<>>

\* The positions of the scanned directory whose files have no metadata block:
\* readable texts from which the parser gets no key.
WithoutMetadata ==
    {i \in DOMAIN skills_dir.entries :
        LET e == skills_dir.entries[i] IN
        /\ e.is_file
        /\ e.file.readable
        /\ DOMAIN parse_yaml_frontmatter(e.file.text) = {}}

\* Every warning the scan can record about the file of a subdirectory.
MessagesAbout(path) ==
    {path \o ": no YAML frontmatter found",
     path \o ": missing required field 'name'",
     path \o ": missing required field 'description'",
     path \o ": missing required field 'version'",
     path \o ": 'tags' should be a list",
     path \o ": 'trigger' should be a list",
     path \o ": confidence_threshold 1.5 outside [0, 1]",
     path \o ": confidence_threshold is not a number",
     "Failed to parse " \o path \o ": 'utf-8' codec can't decode byte",
     "Failed to parse " \o path \o ": could not convert string to float: 'high'"}

\* The recorded warnings about the file of a subdirectory, in order.
WarningsAbout(path) ==
    SelectSeq(validation_warnings, LAMBDA w : w \in MessagesAbout(path))

\* C26: after a scan that returned, a file without a metadata block has no
\* descriptor and exactly one warning, and the files after it were processed:
\* the registered ones among them have their names in the registry.  A block
\* without any key counts as no metadata block.
C26_NoMetadataOneWarning ==
    /\ ScanReturned =>
          \A i \in WithoutMetadata :
              LET path == skills_dir.entries[i].path IN
              /\ \A n \in DOMAIN registry : registry[n].path # path
              /\ WarningsAbout(path) = <<path \o ": no YAML frontmatter found">>
              /\ \A j \in RegisteredFiles :
                    j > i => NameOf(skills_dir.entries[j]) \in DOMAIN registry
    /\ register_from_file(registry, validation_warnings, "d4", EmptyBlock, strict)
           = Registration(registry,
                          Append(validation_warnings,
                                 "d4: no YAML frontmatter found"), None)

\* A file without a metadata block was scanned before a file that is
\* registered.
C26_Witness ==
    /\ ScanReturned
    /\ \E i \in WithoutMetadata : \E j \in RegisteredFiles :
          /\ j > i
          /\ registry[NameOf(skills_dir.entries[j])].path = skills_dir.entries[j].path
          /\ WarningsAbout(skills_dir.entries[i].path) # <<>>

\* A file whose text has a metadata block that validation accepts.
WellFormedFile(entry) ==
    /\ entry.is_file
    /\ entry.file.readable
    /\ DOMAIN parse_yaml_frontmatter(entry.file.text) # {}
    /\ validate_meta(parse_yaml_frontmatter(entry.file.text), entry.path) = <<>>

\* C27: in non-strict mode every scan returns; each defective file (unreadable,
\* without metadata, or with metadata that validation rejects) has a warning;
\* and each well-formed file, before or after a defective one, is registered:
\* its name has a descriptor, made from this file unless a later registered
\* file declares the same name.
C27_DefectsAreWarnings ==
    (~strict /\ scan_ret # None) =>
        LET entries == skills_dir.entries IN
        /\ ScanReturned
        /\ \A i \in DOMAIN entries :
              (entries[i].is_file /\ ~WellFormedFile(entries[i]))
                  => WarningsAbout(entries[i].path) # <<>>
        /\ \A j \in DOMAIN entries :
              WellFormedFile(entries[j]) =>
                  /\ NameOf(entries[j]) \in DOMAIN registry
                  /\ \/ registry[NameOf(entries[j])].path = entries[j].path
                     \/ \E k \in RegisteredFiles :
                           /\ k > j
                           /\ NameOf(entries[k]) = NameOf(entries[j])
                           /\ registry[NameOf(entries[j])].path = entries[k].path

\* A non-strict scan met an unreadable file first and registered the
\* well-formed file after it.
C27_Witness ==
    /\ ~strict
    /\ ScanReturned
    /\ \E i, j \in DOMAIN skills_dir.entries :
          /\ i < j
          /\ skills_dir.entries[i].is_file
          /\ ~skills_dir.entries[i].file.readable
          /\ WellFormedFile(skills_dir.entries[j])
          /\ registry[NameOf(skills_dir.entries[j])].path = skills_dir.entries[j].path
          /\ WarningsAbout(skills_dir.entries[i].path) # <<>>

\* The file is readable and its text has a metadata block with at least one
\* key.
HasMetadata(entry) ==
    /\ entry.is_file
    /\ entry.file.readable
    /\ DOMAIN parse_yaml_frontmatter(entry.file.text) # {}

\* The key the file's descriptor is stored under: its name, or the name of
\* its subdirectory.
DeclaredKey(entry) ==
    Key(MetaGet(parse_yaml_frontmatter(entry.file.text), "name", Text(entry.path)))

\* C28: after a non-strict scan every file with a metadata block is
\* registered, whatever warnings validation produced for it: its name has a
\* descriptor, made from this file unless a later file with a metadata block
\* declares the same name.
C28_WarningsDoNotBlock ==
    (~strict /\ scan_ret # None) =>
        LET entries == skills_dir.entries IN
        \A i \in DOMAIN entries :
            HasMetadata(entries[i]) =>
                /\ DeclaredKey(entries[i]) \in DOMAIN registry
                /\ \E k \in DOMAIN entries :
                      /\ k >= i
                      /\ HasMetadata(entries[k])
                      /\ DeclaredKey(entries[k]) = DeclaredKey(entries[i])
                      /\ registry[DeclaredKey(entries[i])].path = entries[k].path

\* The file has a metadata block for which validation produces a warning.
FailsValidation(entry) ==
    /\ HasMetadata(entry)
    /\ validate_meta(parse_yaml_frontmatter(entry.file.text), entry.path) # <<>>

\* The first position of the scanned directory whose file fails validation.
FirstFailing ==
    CHOOSE i \in DOMAIN skills_dir.entries :
        /\ FailsValidation(skills_dir.entries[i])
        /\ \A k \in DOMAIN skills_dir.entries :
              FailsValidation(skills_dir.entries[k]) => i <= k

\* C29: in strict mode no descriptor is ever made from a file that fails
\* validation, and a scan of a directory with such a file raises
\* SkillValidationError with the warnings of the first such file as its
\* message.
C29_StrictRejects ==
    (strict /\ scan_ret # None) =>
        LET entries == skills_dir.entries IN
        /\ \A i \in DOMAIN entries :
              FailsValidation(entries[i]) =>
                  \A n \in DOMAIN registry : registry[n].path # entries[i].path
        /\ (\E i \in DOMAIN entries : FailsValidation(entries[i])) =>
              scan_ret =
                  [exc |-> [type |-> "SkillValidationError",
                            msg |-> Join(validate_meta(
                                        parse_yaml_frontmatter(
                                            entries[FirstFailing].file.text),
                                        entries[FirstFailing].path))]]

\* A strict scan registered a well-formed file and raised on the file after
\* it, which fails validation.
C29_Witness ==
    /\ strict
    /\ "exc" \in DOMAIN scan_ret
    /\ Len(skills_dir.entries) = 2
    /\ WellFormedFile(skills_dir.entries[1])
    /\ FailsValidation(skills_dir.entries[2])
    /\ DOMAIN registry = {DeclaredKey(skills_dir.entries[1])}

\* C30: a strict scan of a directory that holds a file with a discovery error
\* (no metadata block, or a block that fails validation) raises an error.
C30_StrictDiscoveryFatal ==
    (strict /\ scan_ret # None) =>
        ((WithoutMetadata # {}
          \/ \E i \in DOMAIN skills_dir.entries :
                FailsValidation(skills_dir.entries[i]))
            => "exc" \in DOMAIN scan_ret)

----------------------------------------------------------------------------
(* Claims on the registry's query API (specification SpecQuery) *)

\* The last query was filter_by_tags in the given mode and it returned.
Filtered(match_all) ==
    /\ query_call # None
    /\ query_call.op = "filter_by_tags"
    /\ query_call.match_all = match_all
    /\ "value" \in DOMAIN query_ret

\* What filter_by_tags returns for the tags of the last query in the other
\* mode.
OtherMode == FilterByTags(registry, query_call.tags, ~query_call.match_all)

\* The skills returned with match_all=True are among those returned for the
\* same tags with match_all=False, whichever of the two calls was made.
SubsetOfAny ==
    /\ Filtered(TRUE) =>
          /\ OtherMode.exc = None
          /\ Elems(query_ret.value) \subseteq Elems(OtherMode.value)
    /\ Filtered(FALSE) =>
          /\ OtherMode.exc = None
          /\ Elems(OtherMode.value) \subseteq Elems(query_ret.value)

\* C31 as stated: for every registry and every list of tags the match_all=True
\* result is a subset of the match_all=False result.
C31_SubsetEveryList == SubsetOfAny

\* C31: for every registry and every list of at least one tag the
\* match_all=True result is a subset of the match_all=False result.
C31_SubsetNonEmptyList ==
    (query_call # None /\ query_call.tags # <<>>) => SubsetOfAny

\* Two tags selected one skill with match_all=True, and more with
\* match_all=False.
C31_Witness ==
    /\ Filtered(TRUE)
    /\ Len(query_call.tags) = 2
    /\ Len(query_ret.value) = 1
    /\ Len(OtherMode.value) > 1

\* The last query was get_parallel_groups and it returned.
Grouped ==
    /\ query_call # None
    /\ query_call.op = "get_parallel_groups"
    /\ "value" \in DOMAIN query_ret

\* The places of the returned groups that list the name.
Listed(name) ==
    {<<g, i>> \in (DOMAIN query_ret.value) \X (1..(MaxFiles + 1)) :
        i \in DOMAIN query_ret.value[g] /\ query_ret.value[g][i] = name}

\* The name is in the explicit name table.
InNameTable(name) == ~IsNum(name) /\ name.s \in DOMAIN name_to_group

\* The positions of a tag list whose tags map to a group.
MappingTags(tags) ==
    {i \in DOMAIN tags : ~IsNum(tags[i]) /\ tags[i].s \in DOMAIN tag_to_group}

\* C32: in the result of get_parallel_groups every registered skill is listed
\* at most once over all groups; a skill of the name table is listed in the
\* table's group whatever its tags are; any other skill with a list of tags
\* is listed in the group of the first of its tags that maps to a group, and
\* nowhere when none maps; no group is empty and every listed name is the
\* name of a registered skill.
C32_ParallelGroups ==
    Grouped =>
        /\ \A n \in DOMAIN registry :
              LET d == registry[n] IN
              /\ Cardinality(Listed(d.name)) <= 1
              /\ InNameTable(d.name) =>
                    \E p \in Listed(d.name) : p[1] = name_to_group[d.name.s]
              /\ (~InNameTable(d.name) /\ IsList(d.tags)) =>
                    IF MappingTags(d.tags.elems) = {} THEN Listed(d.name) = {}
                    ELSE \E t \in MappingTags(d.tags.elems) :
                            /\ \A u \in MappingTags(d.tags.elems) : t <= u
                            /\ \E p \in Listed(d.name) :
                                  p[1] = tag_to_group[d.tags.elems[t].s]
        /\ \A g \in DOMAIN query_ret.value :
              /\ query_ret.value[g] # <<>>
              /\ \A i \in DOMAIN query_ret.value[g] :
                    \E n \in DOMAIN registry :
                        registry[n].name = query_ret.value[g][i]

\* A skill of the name table whose tags map to other groups is listed in the
\* table's group, next to a skill grouped by its second tag.
C32_Witness ==
    /\ Grouped
    /\ DOMAIN query_ret.value = {"fetch", "core_analysis"}
    /\ query_ret.value["fetch"] = <<Text("fetch-jira")>>
    /\ \E n \in DOMAIN registry :
          /\ registry[n].name = Text("fetch-jira")
          /\ registry[n].tags = Listing(<<Text("mining"), Text("nlp")>>)
    /\ query_ret.value["core_analysis"] = <<Text("y")>>

----------------------------------------------------------------------------
(* Claims on the pause prompt's data preview (specification Spec) *)

Markers == {"_truncated", "_total_keys"}

\* The keys of a dict, as a set.
KeySet(d) == {d.dict[i].k : i \in DOMAIN d.dict}

\* The execute calls that returned a routed result of the pause band.
Paused ==
    {i \in DOMAIN tasks :
        /\ call.kind = "execute"
        /\ tasks[i].status = "done"
        /\ tasks[i].invoked
        /\ Lt(tasks[i].result.confidence, THRESHOLD_NOTIFY)}

\* C33: the prompt of a pause-band result carries a data preview with at most
\* 10 top-level keys of data: for data of more than 10 keys it is the first
\* 10 items followed by _truncated = true and _total_keys = len(data), for
\* data of 10 keys or fewer it is data itself, without a marker.
C33_PreviewCapped ==
    \A i \in Paused :
        LET data == tasks[i].result.data
            prompt == tasks[i].result.user_prompt
        IN /\ prompt # None
           /\ "data_preview" \in DOMAIN prompt
           /\ LET preview == prompt.data_preview IN
              IF IsDict(data) /\ Len(data.dict) > max_keys
              THEN /\ IsDict(preview)
                   /\ Len(preview.dict) = max_keys + 2
                   /\ \A n \in 1..max_keys : preview.dict[n] = data.dict[n]
                   /\ preview.dict[max_keys + 1] =
                          [k |-> "_truncated", v |-> Flag(TRUE)]
                   /\ preview.dict[max_keys + 2] =
                          [k |-> "_total_keys", v |-> Num(Len(data.dict))]
                   /\ Cardinality(KeySet(preview) \cap KeySet(data)) <= max_keys
              ELSE /\ preview = data
                   /\ IsDict(preview) => KeySet(preview) \cap Markers = {}

\* A handler returned 0.3 with a dict of 11 keys: the prompt's preview has the
\* first 10 and the two markers.
C33_Witness ==
    /\ Paused # {}
    /\ pc = "done"
    /\ \E i \in Paused :
          /\ tasks[i].result.data = DictOfSize(max_keys + 1)
          /\ Len(tasks[i].result.user_prompt.data_preview.dict) = max_keys + 2

\* A handler returned 0.3 with a dict of exactly 10 keys: the preview is data.
C33_WitnessWhole ==
    \E i \in Paused :
        /\ tasks[i].result.data = DictOfSize(max_keys)
        /\ tasks[i].result.user_prompt.data_preview = DictOfSize(max_keys)

----------------------------------------------------------------------------
(* Claims on the graph store (specification SpecGraph) *)

Touches(row, n) == row.source = n \/ row.target = n

\* C34: after delete_node(n), whatever upsert_node and upsert_edge calls came
\* before, get_node(n) returns None and no stored edge has n as its source or
\* its target, while every other node and every edge that does not touch n
\* is as it was before the call.
C34_DeleteCascades ==
    (store_call # None /\ store_call.op = "delete_node") =>
        LET n == store_call.args[1] IN
        /\ GetNode(nodes, n) = None
        /\ \A row \in edges : ~Touches(row, n)
        /\ \A m \in NodeIds \ {n} :
              GetNode(nodes, m) = GetNode(store_before.nodes, m)
        /\ {row \in nodes : row.id # n} = {row \in store_before.nodes : row.id # n}
        /\ edges = {row \in store_before.edges : ~Touches(row, n)}

\* delete_node removed a node that had an edge from it and an edge to it,
\* and left another node and an edge between other nodes.
C34_Witness ==
    /\ store_call # None
    /\ store_call.op = "delete_node"
    /\ LET n == store_call.args[1] IN
       /\ GetNode(store_before.nodes, n) # None
       /\ \E row \in store_before.edges : row.target = n /\ row.source # n
       /\ nodes # {}
       /\ \E row \in store_before.edges : ~Touches(row, n)

----------------------------------------------------------------------------
(* Claims on the pipeline summary's bookkeeping (specification SpecPipeline) *)

\* C35: in every summary execute_pipeline returns, skills_succeeded plus the
\* length of failed is skills_executed, and every name in failed or in
\* requires_user_input is a key of results.
C35_SummaryAddsUp ==
    (call.kind = "pipeline" /\ pc = "done") =>
        LET summary == ret.summary IN
        /\ summary.skills_succeeded + Len(summary.failed) = summary.skills_executed
        /\ \A k \in DOMAIN summary.failed :
              summary.failed[k] \in DOMAIN summary.results
        /\ \A k \in DOMAIN summary.requires_user_input :
              summary.requires_user_input[k] \in DOMAIN summary.results

\* A pipeline ran one name twice with success and another name once with a
\* pause-band failure.
C35_Witness ==
    /\ call.kind = "pipeline"
    /\ pc = "done"
    /\ ret.summary.skills_executed = 3
    /\ ret.summary.skills_succeeded = 2
    /\ Len(ret.summary.failed) = 1
    /\ Len(ret.summary.requires_user_input) = 1
    /\ Cardinality(DOMAIN ret.summary.results) = 2

\* The executions of a name, in pipeline order.
Occurrences(name) == {i \in DOMAIN tasks : tasks[i].name = name}

LastOccurrence(name) ==
    CHOOSE i \in Occurrences(name) : \A j \in Occurrences(name) : j <= i

Repeated == {n \in SkillNames : Cardinality(Occurrences(n)) > 1}

\* C36: for a name that occurs more than once in the pipeline, results of
\* the returned summary has one entry, the result of the last occurrence,
\* skills_executed counts every occurrence, and failed holds the name once
\* for each occurrence that failed; results has as many keys as
\* skills_executed says exactly when no name was executed twice.
C36_RepeatedNames ==
    (call.kind = "pipeline" /\ pc = "done") =>
        LET summary == ret.summary IN
        /\ \A n \in Repeated :
              /\ n \in DOMAIN summary.results
              /\ summary.results[n] = to_dict(tasks[LastOccurrence(n)].result)
              /\ Cardinality({k \in DOMAIN summary.failed : summary.failed[k] = n})
                     = Cardinality({i \in Occurrences(n) : ~tasks[i].result.success})
        /\ summary.skills_executed =
               Cardinality(UNION {Occurrences(n) : n \in SkillNames})
        /\ (Cardinality(DOMAIN summary.results) = summary.skills_executed)
               <=> (Repeated = {})

\* A name ran twice in one pipeline: the first execution failed, the last
\* succeeded, and results shows the successful one.
C36_Witness ==
    /\ call.kind = "pipeline"
    /\ pc = "done"
    /\ \E n \in Repeated :
          /\ Cardinality(Occurrences(n)) = 2
          /\ \E i \in Occurrences(n) :
                i < LastOccurrence(n) /\ ~tasks[i].result.success
          /\ tasks[LastOccurrence(n)].result.success
          /\ ret.summary.results[n].success
          /\ ret.summary.failed = <<n>>

----------------------------------------------------------------------------
(* Claims on the caller's context (specification SpecFrame) *)

\* The caller's context object and its prior_results mapping are as the
\* caller passed them.
CallerUntouched ==
    /\ caller_context \in CallerContexts
    /\ "graph_store" \notin caller_context.keys
    /\ heap.caller = CallerHeap(caller_context).caller

\* C37: execute, execute_parallel and execute_pipeline leave the context
\* object the caller passed unchanged, with the prior_results mapping it
\* holds: graph_store and the accumulated results are only in the engine's
\* own copies.
C37_CallerContextUnchanged == (call.kind # "none") => CallerUntouched

\* The same for the calls that can be told apart from the failing one: every
\* call but execute_pipeline on a context that holds prior_results.
C37_UnchangedWithoutPrior ==
    (call.kind # "none" /\ ~(call.kind = "pipeline" /\ caller_context.pr = "caller"))
        => CallerUntouched

\* execute_pipeline returned after a step on a context with the caller's
\* prior_results, and the caller's mapping holds the step's result.
C37_Written ==
    /\ call.kind = "pipeline"
    /\ pc = "done"
    /\ caller_context.pr = "caller"
    /\ "a" \in DOMAIN heap.caller

----------------------------------------------------------------------------
(* Claims on the termination of a pipeline (specification SpecPipelineFair) *)

\* The pipeline call has returned its summary, with one execute call per
\* occurrence of a name, and a handler invoked in that call exactly when the
\* name is in the registry.
ReturnedSummary ==
    /\ call.kind = "pipeline"
    /\ pc = "done"
    /\ "summary" \in DOMAIN ret
    /\ \A s \in DOMAIN call.pipeline :
          \A k \in DOMAIN call.pipeline[s].names : ExecutedOnce(s, k)
    /\ Len(tasks) = TotalNames(call.pipeline)
    /\ \A i \in DOMAIN tasks : tasks[i].invoked <=> (tasks[i].name \in DOMAIN registry)

\* C38: when every invoked handler returns or raises and the tasks are
\* scheduled fairly, every call of execute_pipeline comes to return its
\* summary, after one handler invocation for each occurrence of a name of
\* the registry and none for the other names.
C38_PipelineReturns == (call.kind = "pipeline") ~> ReturnedSummary

----------------------------------------------------------------------------
(* Claims on the isolation of a parallel step (specification SpecPipeline) *)

\* The execute calls made in a parallel step of a pipeline, with a handler.
InParallelStep ==
    {i \in DOMAIN tasks :
        /\ call.kind = "pipeline"
        /\ tasks[i].step >= 1
        /\ call.pipeline[tasks[i].step].tag = "parallel"
        /\ tasks[i].invoked}

\* prior_results as the steps before step s left it.
BeforeStep(s) ==
    LET earlier == SelectSeq(tasks, LAMBDA t : t.step < s) IN
    ResultsByName([k \in DOMAIN earlier |-> earlier[k].result])

\* prior_results as the handler of a task finds it in its context now.
VisibleTo(t) == IF t.ctx.pr = "absent" THEN EmptyMap ELSE heap[t.ctx.pr]

\* C39: a handler of a parallel pipeline step finds in prior_results no result
\* of a sibling of its step, neither when it is invoked nor later in its run,
\* in whatever order the tasks run and complete: what it finds is what the
\* earlier steps left, as the step's results are merged only once all of its
\* tasks are done.
C39_SiblingsUnseen ==
    \A i \in InParallelStep :
        LET t == tasks[i] IN
        /\ t.seen = DOMAIN BeforeStep(t.step)
        /\ (t.status = "running") =>
              /\ VisibleTo(t) = BeforeStep(t.step)
              /\ step_index = t.step

\* After a first step ran "a", the second task of a parallel step of two is
\* done with a result for "a" that differs from the first step's, while the
\* first task's handler is still running and finds the first step's result.
C39_Witness ==
    /\ InParallelStep # {}
    /\ pc = "pipeline_parallel"
    /\ Len(tasks) = 3
    /\ tasks[1].name = "a"
    /\ tasks[1].step = 1
    /\ tasks[2].step = 2 /\ tasks[3].step = 2
    /\ tasks[2].status = "running"
    /\ tasks[3].status = "done"
    /\ tasks[3].name = "a"
    /\ tasks[3].result # tasks[1].result
    /\ "a" \in DOMAIN VisibleTo(tasks[2])
    /\ VisibleTo(tasks[2])["a"] = to_dict(tasks[1].result)

----------------------------------------------------------------------------
(* Claims on a strict scan that raises (specification SpecRegistry) *)

\* The last scan was a strict one that raised SkillValidationError.
StrictRaised ==
    /\ strict
    /\ scan_ret # None
    /\ "exc" \in DOMAIN scan_ret
    /\ scan_ret.exc.type = "SkillValidationError"

\* The positions before the first failing file whose files are registered.
Preceding ==
    {i \in DOMAIN skills_dir.entries :
        i < FirstFailing /\ HasMetadata(skills_dir.entries[i])}

\* C40: when a strict scan raises on a file that fails validation, it stops
\* at that file: the registry holds exactly the descriptors of the files
\* before it in scan order, nothing of a file after it is parsed (no
\* descriptor, no warning), and validation_warnings has the warnings of the
\* failing file.
C40_StrictScanStops ==
    StrictRaised =>
        LET entries == skills_dir.entries IN
        /\ \E i \in DOMAIN entries : FailsValidation(entries[i])
        /\ DOMAIN registry = {DeclaredKey(entries[i]) : i \in Preceding}
        /\ \A i \in Preceding :
              \E k \in Preceding :
                  /\ DeclaredKey(entries[k]) = DeclaredKey(entries[i])
                  /\ \A j \in Preceding :
                        DeclaredKey(entries[j]) = DeclaredKey(entries[i]) => j <= k
                  /\ registry[DeclaredKey(entries[i])]
                         = Alone(entries[k]).skills[DeclaredKey(entries[i])]
        /\ \A k \in DOMAIN entries :
              k > FirstFailing =>
                  /\ WarningsAbout(entries[k].path) = <<>>
                  /\ \A n \in DOMAIN registry : registry[n].path # entries[k].path
        /\ WarningsAbout(entries[FirstFailing].path)
               = validate_meta(parse_yaml_frontmatter(entries[FirstFailing].file.text),
                               entries[FirstFailing].path)

\* A strict scan raised on the first file, and the well-formed file after it
\* has no descriptor.
C40_Witness ==
    /\ StrictRaised
    /\ Len(skills_dir.entries) = 2
    /\ FailsValidation(skills_dir.entries[1])
    /\ WellFormedFile(skills_dir.entries[2])
    /\ registry = EmptySkills
    /\ validation_warnings # <<>>

\* A strict scan raised on the second file, after a file without a metadata
\* block that left its warning.
C40_WitnessAfterWarning ==
    /\ StrictRaised
    /\ Len(skills_dir.entries) = 2
    /\ 1 \in WithoutMetadata
    /\ FailsValidation(skills_dir.entries[2])
    /\ Len(validation_warnings) >= 2

====
